---- MODULE Spec2Model ----
(***************************************************************************)
(* Model of github-stats: usecase.Aggregator.Aggregate                     *)
(* (src/internal/usecase/aggregator.go) running its fetches in an          *)
(* errgroup against a gateway.Fetcher (src/internal/gateway/github.go).    *)
(*                                                                         *)
(* Repository names are Go strings, modelled as sequences of bytes so that *)
(* the sort's comparison (sortedStats[i].Name < sortedStats[j].Name) is    *)
(* the byte-wise lexicographic order Go uses.  Timestamps are whole        *)
(* seconds since an arbitrary epoch; every difference of two of them is    *)
(* far inside the range of a time.Duration, so Time.Sub does not saturate. *)
(***************************************************************************)
EXTENDS Integers, Sequences, FiniteSets, TLC

\* ------------------------------------------------------------------ bounds

\* Longest list of PRLeadTimeData the lead-time source returns for one repository.
MaxPRs == 2
\* Largest count a count map holds for a repository.
MaxCount == 2

\* ------------------------------------------------------------- value domains

\* "a", "ab", "b" as bytes: a name, a name it is a prefix of, and a later name.
RepoNames == { <<97>>, <<97, 98>>, <<98>> }
\* The repositories the count fetches report: "a" and "b".
CountRepoNames == { <<97>>, <<98>> }

\* Counts a Fetcher may report under a key.
Counts == 1..MaxCount

\* Seconds in one hour (time.Hour / time.Second).
Hour == 3600

\* The (CreatedAt, LastReviewedAt) pairs the lead-time source may supply: a last
\* review one hour after creation, and one dated two hours before creation.
PRLeadTimeData ==
    { [CreatedAt |-> Hour,     LastReviewedAt |-> 2 * Hour],
      [CreatedAt |-> 2 * Hour, LastReviewedAt |-> 0] }

\* Errors a fetch may return on its own account.
FetchErrors == { "github api error", "rate limited" }
\* The error of a context that was cancelled (context.Canceled).
CtxCanceled == "context canceled"
\* Go's nil error.
NilErr == "<nil>"

\* The fetch tasks of one Aggregate call, in launch order.
Tasks == { "commits", "createdPRs", "reviewedPRs", "leadTimes" }

\* The arguments statsCmd passes to Aggregate: --org, --user, and the two search
\* qualifiers it formats from --from and --to.
Org == "acme"
User == "octocat"
CommitDateRange == " author-date:2025-01-01..2025-12-31"
PRDateRange == " created:2025-01-01..2025-12-31"

\* The result slots: the locals of Aggregate the task closures assign.
Slots == { "commitCounts", "createdPRCounts", "reviewedPRCounts", "leadTimesByRepo" }
CountTasks == { "commits", "createdPRs", "reviewedPRs" }

\* ---------------------------------------------------------- Go maps and slices

\* A Go map value: nil, or a table from keys to values.
NilMap == [isNil |-> TRUE, kv |-> <<>>]
MakeMap(f) == [isNil |-> FALSE, kv |-> f]
\* The keys a range over the map visits (none for a nil map).
Keys(m) == IF m.isNil THEN {} ELSE DOMAIN m.kv

\* A Go slice value: nil, or a sequence of elements.
NilSlice == [isNil |-> TRUE, elems |-> <<>>]
MakeSlice(s) == [isNil |-> FALSE, elems |-> s]

\* All sequences over S of length at most n.
SeqsUpTo(S, n) == UNION { [1..k -> S] : k \in 0..n }

\* Every order in which a range over a map with key set S may visit the keys.
RECURSIVE Orderings(_)
Orderings(S) ==
    IF S = {} THEN { <<>> }
    ELSE UNION { { <<x>> \o r : r \in Orderings(S \ {x}) } : x \in S }

\* What FetchCommits / FetchCreatedPRs / FetchReviewedPRs may return on success:
\* a nil map, or a map from some of the repositories to counts.
CountMaps ==
    { NilMap } \cup
    { MakeMap(f) : f \in UNION { [S -> Counts] : S \in SUBSET CountRepoNames } }

\* What FetchPRLeadTimes may return on success: a nil map, an empty map, or the
\* (possibly empty) list of one repository.
LeadTimeMaps ==
    { NilMap, MakeMap(<<>>) } \cup
    { MakeMap([n \in {name} |-> list]) :
        name \in RepoNames, list \in SeqsUpTo(PRLeadTimeData, MaxPRs) }

\* ------------------------------------------------------------ pure functions

\* Go's s < t on strings: byte-wise lexicographic, a proper prefix first.
RECURSIVE LessStr(_, _)
LessStr(s, t) ==
    IF t = <<>> THEN FALSE
    ELSE IF s = <<>> THEN TRUE
    ELSE IF Head(s) # Head(t) THEN Head(s) < Head(t)
    ELSE LessStr(Tail(s), Tail(t))

\* &domain.RepoStats{Name: repoName}: every other field is its zero value.
NewRepoStats(repoName) ==
    [ Name |-> repoName, Commits |-> 0, CreatedPRs |-> 0, ReviewedPRs |-> 0,
      LeadTimeToLastReviewSeconds |-> <<>> ]

\* ensureRepoStat: add a fresh record for repoName unless statsMap has one.
ensureRepoStat(statsMap, repoName) ==
    IF repoName \in DOMAIN statsMap THEN statsMap
    ELSE [ n \in (DOMAIN statsMap) \cup {repoName} |->
             IF n = repoName THEN NewRepoStats(repoName) ELSE statsMap[n] ]

\* Mutant of SetCount: the created-PR loop writes the ReviewedPRs field.
SetCountWrongField(statsMap, field, repoName, count) ==
    LET m == ensureRepoStat(statsMap, repoName)
    IN  [ m EXCEPT ![repoName] =
            CASE field = "Commits"     -> [ @ EXCEPT !.Commits = count ]
              [] field = "CreatedPRs"  -> [ @ EXCEPT !.ReviewedPRs = count ]
              [] field = "ReviewedPRs" -> [ @ EXCEPT !.ReviewedPRs = count ] ]

\* The body of one of the three count loops: ensure the record, then assign the
\* count to the loop's field.
SetCount(statsMap, field, repoName, count) ==
    LET m == ensureRepoStat(statsMap, repoName)
    IN  [ m EXCEPT ![repoName] =
            CASE field = "Commits"     -> [ @ EXCEPT !.Commits = count ]
              [] field = "CreatedPRs"  -> [ @ EXCEPT !.CreatedPRs = count ]
              [] field = "ReviewedPRs" -> [ @ EXCEPT !.ReviewedPRs = count ] ]

\* for repoName, count := range counts { ... }, the keys visited in `order`.
RECURSIVE MergeCounts(_, _, _, _)
MergeCounts(statsMap, field, counts, order) ==
    IF order = <<>> THEN statsMap
    ELSE MergeCounts(SetCount(statsMap, field, Head(order), counts.kv[Head(order)]),
                     field, counts, Tail(order))

\* Mutant of LeadTimeSeconds: the operands of Sub are swapped.
LeadTimeSecondsSwapped(data) == data.CreatedAt - data.LastReviewedAt

\* data.LastReviewedAt.Sub(data.CreatedAt).Seconds()
LeadTimeSeconds(data) == data.LastReviewedAt - data.CreatedAt

\* for _, data := range leadTimeDataList { append(..., duration.Seconds()) }
RECURSIVE AppendLeadTimes(_, _)
AppendLeadTimes(samples, leadTimeDataList) ==
    IF leadTimeDataList = <<>> THEN samples
    ELSE AppendLeadTimes(Append(samples, LeadTimeSeconds(Head(leadTimeDataList))),
                         Tail(leadTimeDataList))

\* Mutant of AddLeadTimes: a repository with an empty list gets no record.
AddLeadTimesSkipEmpty(statsMap, repoName, leadTimeDataList) ==
    IF leadTimeDataList = <<>> THEN statsMap
    ELSE LET m == ensureRepoStat(statsMap, repoName)
         IN  [ m EXCEPT ![repoName].LeadTimeToLastReviewSeconds =
                 AppendLeadTimes(@, leadTimeDataList) ]

\* The body of the lead-time loop for one repository.
AddLeadTimes(statsMap, repoName, leadTimeDataList) ==
    LET m == ensureRepoStat(statsMap, repoName)
    IN  [ m EXCEPT ![repoName].LeadTimeToLastReviewSeconds =
            AppendLeadTimes(@, leadTimeDataList) ]

\* for repoName, leadTimeDataList := range leadTimesByRepo { ... }
RECURSIVE MergeLeadTimes(_, _, _)
MergeLeadTimes(statsMap, leadTimes, order) ==
    IF order = <<>> THEN statsMap
    ELSE MergeLeadTimes(AddLeadTimes(statsMap, Head(order), leadTimes.kv[Head(order)]),
                        leadTimes, Tail(order))

\* for _, repoStat := range statsMap { sortedStats = append(sortedStats, repoStat) }
RECURSIVE CollectStats(_, _)
CollectStats(statsMap, order) ==
    IF order = <<>> THEN <<>>
    ELSE <<statsMap[Head(order)]>> \o CollectStats(statsMap, Tail(order))

\* Mutant of LessByName: the comparison is reversed.
LessByNameReversed(x, y) == LessStr(y.Name, x.Name)

\* The comparison handed to sort.Slice.
LessByName(x, y) == LessStr(x.Name, y.Name)

\* Insert x into the sorted sequence s, before the first element x is less than.
RECURSIVE InsertSorted(_, _)
InsertSorted(s, x) ==
    IF s = <<>> THEN <<x>>
    ELSE IF LessByName(x, Head(s)) THEN <<x>> \o s
    ELSE <<Head(s)>> \o InsertSorted(Tail(s), x)

\* Mutant of SortSlice: the slice is left in the order it was collected.
SortSliceNone(s) == s

\* sort.Slice(sortedStats, less): the names are distinct, so the sorted order is
\* unique and any correct sort yields it (Go uses insertion sort up to 12 elements).
RECURSIVE SortSlice(_)
SortSlice(s) ==
    IF s = <<>> THEN <<>>
    ELSE InsertSorted(SortSlice(SubSeq(s, 1, Len(s) - 1)), s[Len(s)])

\* Mutant of MergeAll: statsMap is kept by the Aggregator and still holds the
\* record of a repository "a" that an earlier call reviewed pull requests in.
MergeAllOntoEarlier(calc, commits, created, reviewed, leadTimes, oc, op, orv, ol) ==
    LET m0 == MergeCounts(<<>>, "ReviewedPRs", MakeMap([n \in {<<97>>} |-> 1]), <<<<97>>>>)
        m1 == MergeCounts(m0, "Commits", commits, oc)
        m2 == MergeCounts(m1, "CreatedPRs", created, op)
        m3 == MergeCounts(m2, "ReviewedPRs", reviewed, orv)
    IN  IF calc THEN MergeLeadTimes(m3, leadTimes, ol) ELSE m3

\* Lines 73-106 of Aggregate: the merge of the four slots into statsMap, for given
\* iteration orders of the four source maps.
MergeAll(calc, commits, created, reviewed, leadTimes, oc, op, orv, ol) ==
    LET m1 == MergeCounts(<<>>, "Commits", commits, oc)
        m2 == MergeCounts(m1, "CreatedPRs", created, op)
        m3 == MergeCounts(m2, "ReviewedPRs", reviewed, orv)
    IN  IF calc THEN MergeLeadTimes(m3, leadTimes, ol) ELSE m3

\* Mutant of SortedStats: sortedStats is declared without make, so it stays nil
\* when nothing is appended.
SortedStatsNilWhenEmpty(statsMap, os) ==
    IF os = <<>> THEN NilSlice
    ELSE MakeSlice(SortSlice(CollectStats(statsMap, os)))

\* Lines 108-115 of Aggregate: sortedStats is made (non-nil, length 0), filled
\* from statsMap in iteration order `os`, and sorted.
SortedStats(statsMap, os) == MakeSlice(SortSlice(CollectStats(statsMap, os)))

\* ------------------------------------------------------------------- state

VARIABLES
    pc,                 \* where the goroutine calling Aggregate is
    calculateLeadTime,  \* the flag of the call in progress
    callerCancelled,    \* the caller's ctx is done
    egCtxCancelled,     \* egCtx (errgroup.WithContext(ctx)) is done
    egErr,              \* the errgroup's err, set once
    task,               \* each fetch task: none, launched, running or done
    commitCounts, createdPRCounts, reviewedPRCounts, leadTimesByRepo,
                        \* the result slots (locals of Aggregate)
    failures,           \* history: the tasks that failed, with their errors, in order
    calls,              \* history: the invocations each Fetch method received
    writers,            \* history: the tasks that assigned each slot
    racing,             \* history: the tasks still unfinished when the merge read the slots
    result              \* what the last finished call returned

slots == <<commitCounts, createdPRCounts, reviewedPRCounts, leadTimesByRepo>>
aggregatorVars == <<pc, calculateLeadTime, callerCancelled, egCtxCancelled, egErr, task,
          commitCounts, createdPRCounts, reviewedPRCounts, leadTimesByRepo,
          failures, calls, writers, racing, result>>
history == <<calls, writers, racing>>

\* statsCmd: one run of the command, from its flags to the JSON it prints.
VARIABLES
    cliPc,              \* where statsCmd is: off, token, dates, gateway, aggregate,
                        \* loop, exit0 or exit1
    leadTimeFlag,       \* the --lead-time flag (calculateLeadTime in statsCmd)
    domainResults,      \* what Aggregate returned to statsCmd
    outputResults,      \* the []OutputRepoStats built so far
    stdout,             \* the JSON documents printed
    token,              \* GITHUB_TOKEN
    fromStr, toStr,     \* the --from and --to flags
    dateRanges,         \* commitDateRange and prDateRange
    stderr,             \* the diagnostics written to standard error
    gatewayCalls,       \* history: the calls of gateway.NewGitHubGateway
    aggregateCalls      \* history: the calls of aggregator.Aggregate

cliVars == <<cliPc, leadTimeFlag, domainResults, outputResults, stdout,
             token, fromStr, toStr, dateRanges, stderr, gatewayCalls, aggregateCalls>>

\* A date flag as typed: the separator and the year, month and day fields; the
\* empty string when the flag is not given.
DateString(sep, y, m, d) == [sep |-> sep, y |-> y, m |-> m, d |-> d]
NoDate == DateString("", 0, 0, 0)

\* "*" in a date range.
AnyDate == DateString("*", 0, 0, 0)

\* A search qualifier with its range, as fmt.Sprintf(" created:%s..%s", ...) builds
\* it; the empty string when no date flag is given.
DateRange(qualifier, fromQuery, toQuery) ==
    [qualifier |-> qualifier, from |-> fromQuery, to |-> toQuery]
NoDateRange == DateRange("", NoDate, NoDate)

\* GitHubGateway: one call of a Fetch method and the search it pages through.
VARIABLES
    gwPc,               \* where the Fetch method is: off, query or returned
    searchResult,       \* every edge or item the search matches on the server, in order
    cursor,             \* variables["cursor"]: edges already paged over, 0 for nil;
                        \* in FetchCommits opts.Page, 0 for the default page
    gwLeadTimesByRepo,  \* the local leadTimesByRepo of FetchPRLeadTimes
    gwResult,           \* what the Fetch method returned
    gwMethod,           \* the Fetch method called
    gwCounts,           \* the local commitCounts of FetchCommits, prCounts of fetchPRCounts
    requests            \* history: the cursor or page number of every request sent

gatewayVars == <<gwPc, searchResult, cursor, gwLeadTimesByRepo, gwResult,
                 gwMethod, gwCounts, requests>>

\* What the steps of Aggregate leave alone.
outside == <<cliVars, gatewayVars>>

\* statsCmd is not in its output phase.
CliOff ==
    /\ cliPc = "off"
    /\ leadTimeFlag = FALSE
    /\ domainResults = <<>>
    /\ outputResults = <<>>
    /\ stdout = <<>>
    /\ token = ""
    /\ fromStr = NoDate
    /\ toStr = NoDate
    /\ dateRanges = [commit |-> NoDateRange, pr |-> NoDateRange]
    /\ stderr = <<>>
    /\ gatewayCalls = <<>>
    /\ aggregateCalls = <<>>

\* FetchPRLeadTimes has not returned.
NoGatewayResult == [returned |-> FALSE, m |-> NilMap, err |-> NilErr]

\* No FetchPRLeadTimes call of the gateway is followed.
GatewayOff ==
    /\ gwPc = "off"
    /\ searchResult = <<>>
    /\ cursor = 0
    /\ gwLeadTimesByRepo = NilMap
    /\ gwResult = NoGatewayResult
    /\ gwMethod = "none"
    /\ gwCounts = NilMap
    /\ requests = <<>>

vars == <<aggregatorVars, cliVars, gatewayVars>>

\* No call has returned yet, or one is in progress.
NoResult == [returned |-> FALSE, stats |-> NilSlice, err |-> NilErr]
Returned(stats, err) == [returned |-> TRUE, stats |-> stats, err |-> err]

\* No Aggregate call is in progress and none has been made.
AggregatorIdle ==
    /\ pc = "idle"
    /\ calculateLeadTime = FALSE
    /\ callerCancelled = FALSE
    /\ egCtxCancelled = FALSE
    /\ egErr = NilErr
    /\ task = [t \in Tasks |-> "none"]
    /\ commitCounts = NilMap
    /\ createdPRCounts = NilMap
    /\ reviewedPRCounts = NilMap
    /\ leadTimesByRepo = NilMap
    /\ failures = <<>>
    /\ calls = [t \in Tasks |-> <<>>]
    /\ writers = [s \in Slots |-> {}]
    /\ racing = {}
    /\ result = NoResult

Init == AggregatorIdle /\ CliOff /\ GatewayOff

\* A caller enters Aggregate: fresh locals, a fresh errgroup over the caller's ctx.
Call ==
    /\ pc \in {"idle", "returned"}
    /\ pc' = "goCommits"
    /\ calculateLeadTime' \in BOOLEAN
    /\ callerCancelled' = FALSE
    /\ egCtxCancelled' = FALSE
    /\ egErr' = NilErr
    /\ task' = [t \in Tasks |-> "none"]
    /\ commitCounts' = NilMap
    /\ createdPRCounts' = NilMap
    /\ reviewedPRCounts' = NilMap
    /\ leadTimesByRepo' = NilMap
    /\ failures' = <<>>
    /\ calls' = [t \in Tasks |-> <<>>]
    /\ writers' = [s \in Slots |-> {}]
    /\ racing' = {}
    /\ result' = NoResult
    /\ UNCHANGED outside

\* eg.Go(f): the task's goroutine is started; the caller moves on.
Go(t, at, next) ==
    /\ pc = at
    /\ pc' = next
    /\ task' = [task EXCEPT ![t] = "launched"]
    /\ UNCHANGED <<calculateLeadTime, callerCancelled, egCtxCancelled, egErr,
                   slots, failures, history, result>>
    /\ UNCHANGED outside

GoCommits == Go("commits", "goCommits", "goCreatedPRs")
GoCreatedPRs == Go("createdPRs", "goCreatedPRs", "goReviewedPRs")
GoReviewedPRs == Go("reviewedPRs", "goReviewedPRs", "ifLeadTime")

\* Mutant of LaunchLeadTimes: the lead-time task is launched whatever the flag.
LaunchLeadTimesAlways(calc) == TRUE

\* if calculateLeadTime { eg.Go(...) }
LaunchLeadTimes(calc) == calc

GoLeadTimes ==
    /\ LaunchLeadTimes(calculateLeadTime)
    /\ Go("leadTimes", "ifLeadTime", "wait")

SkipLeadTimes ==
    /\ pc = "ifLeadTime"
    /\ ~LaunchLeadTimes(calculateLeadTime)
    /\ pc' = "wait"
    /\ UNCHANGED <<calculateLeadTime, callerCancelled, egCtxCancelled, egErr, task,
                   slots, failures, history, result>>
    /\ UNCHANGED outside

\* Mutant of ArgsOf: every closure passes prDateRange.
ArgsOfPRFilterEverywhere(t) ==
    [ctx |-> "egCtx", org |-> Org, user |-> User, dateRange |-> PRDateRange]

\* The arguments the closure of task t passes to its Fetch method:
\* FetchCommits(egCtx, org, user, commitDateRange), the others (egCtx, org, user,
\* prDateRange).
ArgsOf(t) ==
    [ctx |-> "egCtx", org |-> Org, user |-> User,
     dateRange |-> IF t = "commits" THEN CommitDateRange ELSE PRDateRange]

\* The task's goroutine runs and calls its Fetch method with egCtx.  The history
\* keeps the arguments of the invocation.
FetchInvoke(t) ==
    /\ task[t] = "launched"
    /\ task' = [task EXCEPT ![t] = "running"]
    /\ calls' = [calls EXCEPT ![t] = Append(@, ArgsOf(t))]
    /\ UNCHANGED <<pc, calculateLeadTime, callerCancelled, egCtxCancelled, egErr,
                   slots, failures, writers, racing, result>>
    /\ UNCHANGED outside

\* Mutant of SlotOf: the created-PR closure assigns commitCounts.
SlotOfCopyPaste(t) ==
    CASE t = "commits" -> "commitCounts"
      [] t = "createdPRs" -> "commitCounts"
      [] t = "reviewedPRs" -> "reviewedPRCounts"
      [] t = "leadTimes" -> "leadTimesByRepo"

\* The local each task's closure assigns.
SlotOf(t) ==
    CASE t = "commits" -> "commitCounts"
      [] t = "createdPRs" -> "createdPRCounts"
      [] t = "reviewedPRs" -> "reviewedPRCounts"
      [] t = "leadTimes" -> "leadTimesByRepo"

\* The task's closure assigns what the fetch returned to its slot.
StoreSlot(t, m) ==
    /\ commitCounts' = IF SlotOf(t) = "commitCounts" THEN m ELSE commitCounts
    /\ createdPRCounts' = IF SlotOf(t) = "createdPRCounts" THEN m ELSE createdPRCounts
    /\ reviewedPRCounts' = IF SlotOf(t) = "reviewedPRCounts" THEN m ELSE reviewedPRCounts
    /\ leadTimesByRepo' = IF SlotOf(t) = "leadTimesByRepo" THEN m ELSE leadTimesByRepo
    /\ writers' = [writers EXCEPT ![SlotOf(t)] = @ \cup {t}]

\* The maps the task's fetch may return on success.
SuccessMaps(t) == IF t = "leadTimes" THEN LeadTimeMaps ELSE CountMaps

\* The fetch returns a map and a nil error; the errgroup records nothing.
FetchReturnOK(t) ==
    /\ task[t] = "running"
    /\ \E m \in SuccessMaps(t) : StoreSlot(t, m)
    /\ task' = [task EXCEPT ![t] = "done"]
    /\ UNCHANGED <<pc, calculateLeadTime, callerCancelled, egCtxCancelled, egErr,
                   failures, calls, racing, result>>
    /\ UNCHANGED outside

\* Mutant of ErrOnce: the error is never recorded.
ErrOnceDropped(old, err) == old

\* Mutant of ErrOnce: every error overwrites the one recorded before.
ErrOnceLastWins(old, err) == err

\* g.errOnce.Do(func() { g.err = err; g.cancel(g.err) }): only the first error sticks.
ErrOnce(old, err) == IF old = NilErr THEN err ELSE old

\* Mutant of GroupCancel: a task's error leaves egCtx as it was.
GroupCancelNever(cancelled) == cancelled

\* g.cancel(g.err) inside errOnce.Do: egCtx is done once a task has returned an error.
GroupCancel(cancelled) == TRUE

\* The errors the fetch may return now: its own, or the context's once egCtx is done.
ReturnableErrors == FetchErrors \cup (IF egCtxCancelled THEN {CtxCanceled} ELSE {})

\* Mutant of AfterFetchErr: a failed fetch is queued to be invoked again.
AfterFetchErrRetry == "launched"

\* The closure returns the fetch's error (return err): the task is over.
AfterFetchErr == "done"

\* The fetch returns a nil map and an error; the errgroup keeps it if it is the
\* first and cancels egCtx.
FetchReturnErr(t) ==
    /\ task[t] = "running"
    /\ \E err \in ReturnableErrors :
         /\ egErr' = ErrOnce(egErr, err)
         /\ failures' = Append(failures, [task |-> t, err |-> err])
    /\ StoreSlot(t, NilMap)
    /\ egCtxCancelled' = GroupCancel(egCtxCancelled)
    /\ task' = [task EXCEPT ![t] = AfterFetchErr]
    /\ UNCHANGED <<pc, calculateLeadTime, callerCancelled, calls, racing, result>>
    /\ UNCHANGED outside

\* Mutant of AllJoined: Wait also returns as soon as the group has an error.
AllJoinedOrFailed == (\A t \in Tasks : task[t] \in {"none", "done"}) \/ egErr # NilErr

\* Mutant of AllJoined: wg.Wait() never returns.
AllJoinedNever == FALSE

\* eg.Wait() may return: every launched task has returned (wg.Wait()).
AllJoined == \A t \in Tasks : task[t] \in {"none", "done"}

\* Aggregate has a task still to launch.
MoreToLaunch ==
    \/ pc \in {"goCommits", "goCreatedPRs", "goReviewedPRs"}
    \/ pc = "ifLeadTime" /\ LaunchLeadTimes(calculateLeadTime)

\* Not every fetch of the call has returned yet.
FetchesPending == MoreToLaunch \/ ~AllJoined

\* The caller's context is cancelled or times out before the last fetch of the call
\* has returned; egCtx, derived from it, is done too.  (From the last fetch's return
\* on nothing reads ctx or egCtx, and eg.Wait cancels egCtx itself.)
CallerCancel ==
    /\ FetchesPending
    /\ ~callerCancelled
    /\ callerCancelled' = TRUE
    /\ egCtxCancelled' = TRUE
    /\ UNCHANGED <<pc, calculateLeadTime, egErr, task, slots, failures, history,
                   result>>
    /\ UNCHANGED outside

\* if err := eg.Wait(); err != nil { return nil, err }
WaitReturnErr ==
    /\ pc = "wait"
    /\ AllJoined
    /\ egErr # NilErr
    /\ result' = Returned(NilSlice, egErr)
    /\ racing' = racing
    /\ pc' = "returned"
    /\ egCtxCancelled' = TRUE
    /\ UNCHANGED <<calculateLeadTime, callerCancelled, egErr, task, slots, failures,
                   calls, writers>>
    /\ UNCHANGED outside

\* eg.Wait() returns nil: merge the slots, sort and return (lines 71-118).  The
\* five ranges over maps visit the keys in any order.
WaitReturnOK ==
    /\ pc = "wait"
    /\ AllJoined
    /\ egErr = NilErr
    /\ \E oc \in Orderings(Keys(commitCounts)),
          op \in Orderings(Keys(createdPRCounts)),
          orv \in Orderings(Keys(reviewedPRCounts)),
          ol \in Orderings(Keys(leadTimesByRepo)) :
         LET statsMap == MergeAll(calculateLeadTime, commitCounts, createdPRCounts,
                                  reviewedPRCounts, leadTimesByRepo, oc, op, orv, ol)
         IN  \E os \in Orderings(DOMAIN statsMap) :
               result' = Returned(SortedStats(statsMap, os), NilErr)
    /\ racing' = { t \in Tasks : task[t] \in {"launched", "running"} }
    /\ pc' = "returned"
    /\ egCtxCancelled' = TRUE
    /\ UNCHANGED <<calculateLeadTime, callerCancelled, egErr, task, slots, failures,
                   calls, writers>>
    /\ UNCHANGED outside

Next ==
    \/ Call
    \/ GoCommits
    \/ GoCreatedPRs
    \/ GoReviewedPRs
    \/ GoLeadTimes
    \/ SkipLeadTimes
    \/ \E t \in Tasks : FetchInvoke(t)
    \/ \E t \in Tasks : FetchReturnOK(t)
    \/ \E t \in Tasks : FetchReturnErr(t)
    \/ CallerCancel
    \/ WaitReturnErr
    \/ WaitReturnOK

Spec == Init /\ [][Next]_vars

\* The steps of the goroutine that runs Aggregate, once called.
CallerStep ==
    \/ GoCommits
    \/ GoCreatedPRs
    \/ GoReviewedPRs
    \/ GoLeadTimes
    \/ SkipLeadTimes
    \/ WaitReturnErr
    \/ WaitReturnOK

\* The maps the fetches return in the runs followed for termination: nil, empty,
\* or one entry for repository "a".
FewCountMaps == { NilMap, MakeMap(<<>>), MakeMap([n \in {<<97>>} |-> 1]) }
FewLeadTimeMaps == { NilMap, MakeMap(<<>>), MakeMap([n \in {<<97>>} |-> <<>>]) }
FewResults ==
    /\ commitCounts \in FewCountMaps
    /\ createdPRCounts \in FewCountMaps
    /\ reviewedPRCounts \in FewCountMaps
    /\ leadTimesByRepo \in FewLeadTimeMaps

\* The steps of the goroutine of task t: it is scheduled and calls its fetch, and
\* the fetch returns.
TaskStep(t) ==
    \/ FetchInvoke(t)
    \/ FetchReturnOK(t) /\ FewResults'
    \/ FetchReturnErr(t)

NextFair ==
    \/ Call
    \/ CallerCancel
    \/ CallerStep
    \/ \E t \in Tasks : TaskStep(t)

\* Fair scheduling: the Go scheduler runs every runnable goroutine, and every
\* fetch that was called returns.  Nothing obliges a caller to call Aggregate or to
\* cancel its context.
FairSpec ==
    /\ Init
    /\ [][NextFair]_vars
    /\ WF_vars(CallerStep)
    /\ \A t \in Tasks : WF_vars(TaskStep(t))

\* An earlier Aggregate call on the same Aggregator has returned and its caller
\* has not called again yet.  Two such calls: one with lead time that merged
\* repositories "a" and "b" and two samples of "a", and one without lead time
\* whose FetchReviewedPRs failed.
EarlierCallOK ==
    /\ calculateLeadTime = TRUE
    /\ egErr = NilErr
    /\ task = [t \in Tasks |-> "done"]
    /\ commitCounts = MakeMap([n \in {<<97>>, <<98>>} |-> MaxCount])
    /\ createdPRCounts = MakeMap([n \in {<<97>>} |-> MaxCount])
    /\ reviewedPRCounts = MakeMap([n \in {<<98>>} |-> 1])
    /\ leadTimesByRepo \in
         { MakeMap([n \in {<<97>>} |-> <<d, d>>]) : d \in PRLeadTimeData }
    /\ failures = <<>>
    /\ calls = [t \in Tasks |-> <<ArgsOf(t)>>]
    /\ writers = [sl \in Slots |-> { t \in Tasks : SlotOf(t) = sl }]
    /\ LET list == leadTimesByRepo.kv[<<97>>]
       IN  result =
             Returned(MakeSlice(
               << [ Name |-> <<97>>, Commits |-> MaxCount, CreatedPRs |-> MaxCount,
                    ReviewedPRs |-> 0,
                    LeadTimeToLastReviewSeconds |->
                      [ i \in 1..2 |-> list[i].LastReviewedAt - list[i].CreatedAt ] ],
                  [ Name |-> <<98>>, Commits |-> MaxCount, CreatedPRs |-> 0,
                    ReviewedPRs |-> 1, LeadTimeToLastReviewSeconds |-> <<>> ] >>), NilErr)

EarlierCallFailed ==
    /\ calculateLeadTime = FALSE
    /\ egErr \in FetchErrors
    /\ task = [t \in Tasks |-> IF t = "leadTimes" THEN "none" ELSE "done"]
    /\ commitCounts = MakeMap([n \in {<<97>>} |-> 1])
    /\ createdPRCounts = MakeMap(<<>>)
    /\ reviewedPRCounts = NilMap
    /\ leadTimesByRepo = NilMap
    /\ failures = <<[task |-> "reviewedPRs", err |-> egErr]>>
    /\ calls = [t \in Tasks |-> IF t = "leadTimes" THEN <<>> ELSE <<ArgsOf(t)>>]
    /\ writers = [sl \in Slots |-> { t \in CountTasks : SlotOf(t) = sl }]
    /\ result = Returned(NilSlice, egErr)

AfterEarlierCall ==
    /\ pc = "returned"
    /\ callerCancelled = FALSE
    /\ egCtxCancelled = TRUE
    /\ racing = {}
    /\ EarlierCallOK \/ EarlierCallFailed

InitAfterCall == AfterEarlierCall /\ CliOff /\ GatewayOff

\* The same Aggregator is called again after an earlier call has returned.
SpecAfterCall == InitAfterCall /\ [][Next]_vars

\* ------------------------------------------------- statsCmd: the output phase

\* The longest sample list of one repository.
MaxSamples == 3

\* Lead-time samples in seconds, as Aggregate derives them.
SampleSeconds == { 1800, Hour, 3 * Hour }
SampleLists == SeqsUpTo(SampleSeconds, MaxSamples)

\* Commits, CreatedPRs and ReviewedPRs of a record Aggregate returns.
OutputCounts == { <<1, 0, 0>>, <<0, 2, 1>> }

\* The records Aggregate may return for one repository; it collects samples only
\* when calculateLeadTime is set.
AggregatedRecords(name, flag) ==
    { [ Name |-> name, Commits |-> c[1], CreatedPRs |-> c[2], ReviewedPRs |-> c[3],
        LeadTimeToLastReviewSeconds |-> l ] :
        c \in OutputCounts, l \in (IF flag THEN SampleLists ELSE { <<>> }) }

\* What Aggregate may return: one record per repository, sorted by name.
AggregateResults(flag) ==
    UNION { { r \in [1..Len(o) -> UNION { AggregatedRecords(n, flag) : n \in CountRepoNames }] :
                \A i \in 1..Len(o) : r[i].Name = o[i] } :
            o \in { q \in UNION { Orderings(S) : S \in SUBSET CountRepoNames } :
                      \A i, j \in 1..Len(q) : i < j => LessStr(q[i], q[j]) } }

\* float64 values are kept as exact fractions num/den; 0/0 is NaN.
RECURSIVE Gcd(_, _)
Gcd(a, b) == IF b = 0 THEN a ELSE Gcd(b, a % b)
Abs(n) == IF n < 0 THEN -n ELSE n
Rat(n, d) ==
    LET g == Gcd(Abs(n), d)
    IN  [num |-> n \div g, den |-> d \div g]
NaN == [num |-> 0, den |-> 0]

\* sortedCopy(input): the samples in ascending order.
RECURSIVE InsertFloat(_, _)
InsertFloat(c, x) ==
    IF c = <<>> THEN <<x>>
    ELSE IF x < Head(c) THEN <<x>> \o c
    ELSE <<Head(c)>> \o InsertFloat(Tail(c), x)
\* Mutant of sortedCopy: the samples are used in the order given.
sortedCopyUnsorted(input) == input

RECURSIVE sortedCopy(_)
sortedCopy(input) ==
    IF input = <<>> THEN <<>>
    ELSE InsertFloat(sortedCopy(SubSeq(input, 1, Len(input) - 1)), input[Len(input)])

\* stats.Percentile(input, percent) of github.com/montanaflynn/stats v0.7.1, whose
\* error statsCmd discards: NaN for no sample, the sample itself for one; otherwise
\* with index = percent/100 * len over the sorted copy c, c[index-1] when index is
\* whole, the mean of c[int(index)-1] and c[int(index)] when it is not and index > 1,
\* else NaN.  (Go indexes from 0, sequences here from 1.)
Percentile(input, percent) ==
    LET length == Len(input)
        c == sortedCopy(input)
        scaled == percent * length
        i == scaled \div 100
    IN  IF length = 0 THEN NaN
        ELSE IF length = 1 THEN Rat(input[1], 1)
        ELSE IF percent <= 0 \/ percent > 100 THEN NaN
        ELSE IF scaled % 100 = 0 THEN Rat(c[i], 1)
        ELSE IF scaled > 100 THEN Rat(c[i] + c[i + 1], 2)
        ELSE NaN

\* Mutant of ToHours: the value is reported in seconds.
ToHoursNotConverted(r) == r

\* p / 3600: seconds to hours.
ToHours(r) == IF r.den = 0 THEN NaN ELSE Rat(r.num, r.den * Hour)

\* A nil *LeadTimePercentiles.
NilPercentiles == [isNil |-> TRUE, P99 |-> NaN, P95 |-> NaN, P90 |-> NaN, P75 |-> NaN, P50 |-> NaN]

\* &LeadTimePercentiles{P99: p99 / 3600, ...}
NewLeadTimePercentiles(data) ==
    [ isNil |-> FALSE,
      P99 |-> ToHours(Percentile(data, 99)),
      P95 |-> ToHours(Percentile(data, 95)),
      P90 |-> ToHours(Percentile(data, 90)),
      P75 |-> ToHours(Percentile(data, 75)),
      P50 |-> ToHours(Percentile(data, 50)) ]

\* Mutant of HasLeadTimeData: the percentiles are computed whenever requested.
HasLeadTimeDataWhenRequested(flag, samples) == flag

\* if calculateLeadTime && len(repoStat.LeadTimeToLastReviewSeconds) > 0
HasLeadTimeData(flag, samples) == flag /\ Len(samples) > 0

\* One iteration of the output loop: the OutputRepoStats built from repoStat.
OutputStat(repoStat, flag) ==
    LET data == repoStat.LeadTimeToLastReviewSeconds
        has == HasLeadTimeData(flag, data)
    IN  [ Name |-> repoStat.Name,
          Commits |-> repoStat.Commits,
          CreatedPRs |-> repoStat.CreatedPRs,
          ReviewedPRs |-> repoStat.ReviewedPRs,
          AnalyzedPRCount |-> IF has THEN Len(data) ELSE 0,
          LeadTimePercentiles |-> IF has THEN NewLeadTimePercentiles(data)
                                  ELSE NilPercentiles ]

\* Mutant of JSONKeys: the fields are tagged without omitempty.
JSONKeysNoOmitEmpty(o) ==
    { "name", "commits", "created_prs", "reviewed_prs", "analyzed_pr_count",
      "lead_time_percentiles_hours" }

\* The keys encoding/json writes for an OutputRepoStats: the two omitempty fields
\* are left out when the int is 0 and when the pointer is nil.
JSONKeys(o) ==
    { "name", "commits", "created_prs", "reviewed_prs" }
      \cup (IF o.AnalyzedPRCount # 0 THEN { "analyzed_pr_count" } ELSE {})
      \cup (IF ~o.LeadTimePercentiles.isNil THEN { "lead_time_percentiles_hours" } ELSE {})

\* The JSON object of one OutputRepoStats.
MarshalStat(o) ==
    [ k \in JSONKeys(o) |->
        CASE k = "name" -> o.Name
          [] k = "commits" -> o.Commits
          [] k = "created_prs" -> o.CreatedPRs
          [] k = "reviewed_prs" -> o.ReviewedPRs
          [] k = "analyzed_pr_count" -> o.AnalyzedPRCount
          [] k = "lead_time_percentiles_hours" ->
               [ p99_hours |-> o.LeadTimePercentiles.P99,
                 p95_hours |-> o.LeadTimePercentiles.P95,
                 p90_hours |-> o.LeadTimePercentiles.P90,
                 p75_hours |-> o.LeadTimePercentiles.P75,
                 p50_hours |-> o.LeadTimePercentiles.P50 ] ]

\* json.MarshalIndent(outputResults, "", "  "): the JSON array.
MarshalIndent(results) == [ i \in 1..Len(results) |-> MarshalStat(results[i]) ]

\* The value of GITHUB_TOKEN when it is set.
Token == "ghp_token"

\* The arguments of aggregator.Aggregate(ctx, org, user, commitDateRange,
\* prDateRange, calculateLeadTime).
AggregateArgs(ranges, flag) ==
    [ org |-> Org, user |-> User, commitDateRange |-> ranges.commit,
      prDateRange |-> ranges.pr, calculateLeadTime |-> flag ]

\* One call of aggregator.Aggregate: its arguments and the error it returned.
AggregateCall(ranges, flag, err) == [args |-> AggregateArgs(ranges, flag), err |-> err]

\* aggregator.Aggregate has returned domainResults and a nil error to statsCmd, run
\* with a token and without date flags.
CliAggregated ==
    /\ cliPc = "loop"
    /\ leadTimeFlag \in BOOLEAN
    /\ domainResults \in AggregateResults(leadTimeFlag)
    /\ outputResults = <<>>
    /\ stdout = <<>>
    /\ token = Token
    /\ fromStr = NoDate
    /\ toStr = NoDate
    /\ dateRanges = [commit |-> NoDateRange, pr |-> NoDateRange]
    /\ stderr = <<>>
    /\ gatewayCalls = <<Token>>
    /\ aggregateCalls = <<AggregateCall(dateRanges, leadTimeFlag, NilErr)>>

InitOutput == AggregatorIdle /\ CliAggregated /\ GatewayOff

\* for _, repoStat := range domainResults { ...; outputResults = append(...) }
OutputRecord ==
    /\ cliPc = "loop"
    /\ Len(outputResults) < Len(domainResults)
    /\ outputResults' =
         Append(outputResults,
                OutputStat(domainResults[Len(outputResults) + 1], leadTimeFlag))
    /\ UNCHANGED <<cliPc, leadTimeFlag, domainResults, stdout>>
    /\ UNCHANGED <<token, fromStr, toStr, dateRanges, stderr, gatewayCalls, aggregateCalls>>
    /\ UNCHANGED <<aggregatorVars, gatewayVars>>

\* A diagnostic line: fmt.Fprintln / fmt.Fprintf(os.Stderr, ...) with the error it
\* formats, if any.
Diagnostic(text, err) == [text |-> text, err |-> err]

\* json.MarshalIndent returns an error: encoding/json does not encode NaN.
MarshalFails(results) ==
    \E i \in 1..Len(results) :
      LET p == results[i].LeadTimePercentiles
      IN  ~p.isNil /\ \E v \in { p.P99, p.P95, p.P90, p.P75, p.P50 } : v.den = 0

\* The loop is over: marshal outputResults; print the JSON and return, or report
\* the marshalling error and exit 1.
PrintJSON ==
    /\ cliPc = "loop"
    /\ Len(outputResults) = Len(domainResults)
    /\ IF MarshalFails(outputResults)
       THEN /\ stderr' = Append(stderr, Diagnostic("Failed to marshal results to JSON",
                                                   "json: unsupported value: NaN"))
            /\ cliPc' = "exit1"
            /\ UNCHANGED stdout
       ELSE /\ stdout' = Append(stdout, MarshalIndent(outputResults))
            /\ cliPc' = "exit0"
            /\ UNCHANGED stderr
    /\ UNCHANGED <<leadTimeFlag, domainResults, outputResults>>
    /\ UNCHANGED <<token, fromStr, toStr, dateRanges, gatewayCalls, aggregateCalls>>
    /\ UNCHANGED <<aggregatorVars, gatewayVars>>

NextOutput ==
    \/ OutputRecord
    \/ PrintJSON

SpecOutput == InitOutput /\ [][NextOutput]_vars

\* ------------------------------------------------------- statsCmd, whole run

\* Days of a month of the proleptic Gregorian calendar, as package time validates
\* the day of a parsed date.
IsLeap(y) == y % 4 = 0 /\ (y % 100 # 0 \/ y % 400 = 0)
DaysIn(y, m) ==
    IF m = 2 THEN (IF IsLeap(y) THEN 29 ELSE 28)
    ELSE IF m \in {4, 6, 9, 11} THEN 30 ELSE 31

\* time.Parse("2006/01/02", s): the fields must be separated by "/", the month be
\* 01..12 and the day exist in that month.
ParseDate(s) ==
    IF s.sep # "/" THEN [ok |-> FALSE, t |-> NoDate, err |-> "cannot parse as \"/\""]
    ELSE IF s.m \notin 1..12 THEN [ok |-> FALSE, t |-> NoDate, err |-> "month out of range"]
    ELSE IF s.d \notin 1..DaysIn(s.y, s.m)
         THEN [ok |-> FALSE, t |-> NoDate, err |-> "day out of range"]
    ELSE [ok |-> TRUE, t |-> s, err |-> NilErr]

\* t.Format("2006-01-02")
FormatDate(t) == DateString("-", t.y, t.m, t.d)

\* What --from and --to are given: nothing, a date in the input layout, a day that
\* does not exist, a date in another layout.
DateFlags ==
    { NoDate, DateString("/", 2025, 1, 31), DateString("/", 2025, 2, 30),
      DateString("-", 2025, 1, 31) }

\* The error NewGitHubGateway returns when the rate-limit waiter cannot be built.
GatewayInitError == "failed to create rate limit waiter: invalid option"

\* statsCmd starts: the flags and the environment are read.
InitCmd ==
    /\ AggregatorIdle
    /\ GatewayOff
    /\ cliPc = "token"
    /\ leadTimeFlag \in BOOLEAN
    /\ token \in {"", Token}
    /\ fromStr \in DateFlags
    /\ toStr \in DateFlags
    /\ dateRanges = [commit |-> NoDateRange, pr |-> NoDateRange]
    /\ domainResults = <<>>
    /\ outputResults = <<>>
    /\ stdout = <<>>
    /\ stderr = <<>>
    /\ gatewayCalls = <<>>
    /\ aggregateCalls = <<>>

\* Mutant of TokenMissing: an empty token is accepted.
TokenMissingNever(tok) == FALSE

\* if token == ""
TokenMissing(tok) == tok = ""

\* The credential check: without GITHUB_TOKEN the command reports it and exits 1.
CheckToken ==
    /\ cliPc = "token"
    /\ IF TokenMissing(token)
       THEN /\ stderr' = Append(stderr,
                   Diagnostic("Error: GITHUB_TOKEN environment variable is not set.", NilErr))
            /\ cliPc' = "exit1"
       ELSE /\ cliPc' = "dates"
            /\ UNCHANGED stderr
    /\ UNCHANGED <<leadTimeFlag, domainResults, outputResults, stdout>>
    /\ UNCHANGED <<token, fromStr, toStr, dateRanges, gatewayCalls, aggregateCalls>>
    /\ UNCHANGED <<aggregatorVars, gatewayVars>>

\* fromQuery / toQuery: "*" for a flag that is not given, else the date reformatted.
DateQuery(s) == IF s = NoDate THEN AnyDate ELSE FormatDate(ParseDate(s).t)

\* The date ranges are built: --from is parsed before --to, a date that does not
\* parse is reported and the command exits 1; without either flag both ranges stay
\* empty.
BuildDateRanges ==
    /\ cliPc = "dates"
    /\ IF fromStr = NoDate /\ toStr = NoDate
       THEN /\ cliPc' = "gateway"
            /\ UNCHANGED <<dateRanges, stderr>>
       ELSE IF fromStr # NoDate /\ ~ParseDate(fromStr).ok
       THEN /\ stderr' = Append(stderr, Diagnostic("Invalid --from date format",
                                                   ParseDate(fromStr).err))
            /\ cliPc' = "exit1"
            /\ UNCHANGED dateRanges
       ELSE IF toStr # NoDate /\ ~ParseDate(toStr).ok
       THEN /\ stderr' = Append(stderr, Diagnostic("Invalid --to date format",
                                                   ParseDate(toStr).err))
            /\ cliPc' = "exit1"
            /\ UNCHANGED dateRanges
       ELSE /\ dateRanges' =
                 [ commit |-> DateRange(" author-date:", DateQuery(fromStr), DateQuery(toStr)),
                   pr |-> DateRange(" created:", DateQuery(fromStr), DateQuery(toStr)) ]
            /\ cliPc' = "gateway"
            /\ UNCHANGED stderr
    /\ UNCHANGED <<leadTimeFlag, domainResults, outputResults, stdout>>
    /\ UNCHANGED <<token, fromStr, toStr, gatewayCalls, aggregateCalls>>
    /\ UNCHANGED <<aggregatorVars, gatewayVars>>

\* gateway.NewGitHubGateway(token, logger) returns a gateway.
NewGatewayOK ==
    /\ cliPc = "gateway"
    /\ gatewayCalls' = Append(gatewayCalls, token)
    /\ cliPc' = "aggregate"
    /\ UNCHANGED <<leadTimeFlag, domainResults, outputResults, stdout>>
    /\ UNCHANGED <<token, fromStr, toStr, dateRanges, stderr, aggregateCalls>>
    /\ UNCHANGED <<aggregatorVars, gatewayVars>>

\* gateway.NewGitHubGateway returns an error: reported, exit 1.
NewGatewayFails ==
    /\ cliPc = "gateway"
    /\ gatewayCalls' = Append(gatewayCalls, token)
    /\ stderr' = Append(stderr, Diagnostic("Failed to initialize GitHub gateway",
                                           GatewayInitError))
    /\ cliPc' = "exit1"
    /\ UNCHANGED <<leadTimeFlag, domainResults, outputResults, stdout>>
    /\ UNCHANGED <<token, fromStr, toStr, dateRanges, aggregateCalls>>
    /\ UNCHANGED <<aggregatorVars, gatewayVars>>

\* aggregator.Aggregate returns the records and a nil error.
AggregateSucceeds ==
    /\ cliPc = "aggregate"
    /\ aggregateCalls' = Append(aggregateCalls, AggregateCall(dateRanges, leadTimeFlag, NilErr))
    /\ domainResults' \in AggregateResults(leadTimeFlag)
    /\ cliPc' = "loop"
    /\ UNCHANGED <<leadTimeFlag, outputResults, stdout>>
    /\ UNCHANGED <<token, fromStr, toStr, dateRanges, stderr, gatewayCalls>>
    /\ UNCHANGED <<aggregatorVars, gatewayVars>>

\* Mutant of AfterAggregateErr: the command goes on to the output loop.
AfterAggregateErrContinue == "loop"

\* os.Exit(1) after a failed Aggregate.
AfterAggregateErr == "exit1"

\* aggregator.Aggregate returns nil and the error of a fetch: reported, exit 1.
AggregateFails ==
    /\ cliPc = "aggregate"
    /\ \E err \in FetchErrors :
         /\ aggregateCalls' = Append(aggregateCalls, AggregateCall(dateRanges, leadTimeFlag, err))
         /\ stderr' = Append(stderr, Diagnostic("Failed to aggregate stats", err))
    /\ domainResults' = <<>>
    /\ cliPc' = AfterAggregateErr
    /\ UNCHANGED <<leadTimeFlag, outputResults, stdout>>
    /\ UNCHANGED <<token, fromStr, toStr, dateRanges, gatewayCalls>>
    /\ UNCHANGED <<aggregatorVars, gatewayVars>>

NextCmd ==
    \/ CheckToken
    \/ BuildDateRanges
    \/ NewGatewayOK
    \/ NewGatewayFails
    \/ AggregateSucceeds
    \/ AggregateFails
    \/ OutputRecord
    \/ PrintJSON

SpecCmd == InitCmd /\ [][NextCmd]_vars

\* ------------------------------------------- GitHubGateway.FetchPRLeadTimes

\* Edges or items per search page; stands for `first: 20`, `first: 100` and
\* `PerPage: 100` of the searches.
PageSize == 2

\* Review nodes sent per pull request; stands for `reviews(first: 100, ...)`.
ReviewsFirst == 2

\* The most reviews a pull request has on the server.
MaxReviews == 3

\* When reviews were submitted, and the review lists a pull request may have, in
\* the order the server lists them.
ReviewTimes == { 2 * Hour, 3 * Hour }
ReviewLists == SeqsUpTo(ReviewTimes, MaxReviews)

\* A search edge whose node is a pull request.
PullRequestNode(repo, createdAt, reviews) ==
    [ Typename |-> "PullRequest", NameWithOwner |-> repo, CreatedAt |-> createdAt,
      Reviews |-> reviews ]

\* A search edge whose node is no pull request: the `... on PullRequest` fields
\* keep their zero values.
IssueNode ==
    [ Typename |-> "Issue", NameWithOwner |-> <<>>, CreatedAt |-> 0, Reviews |-> <<>> ]

\* What a search may match: one pull request of "a" with any review list, and some
\* of a once-reviewed pull request of "a", an unreviewed and a once-reviewed one of
\* "b", and an issue, in any order.
SearchResults ==
    UNION { UNION { Orderings(S) :
                    S \in SUBSET { PullRequestNode(<<97>>, Hour, l),
                                   PullRequestNode(<<97>>, 0, <<2 * Hour>>),
                                   PullRequestNode(<<98>>, Hour, <<>>),
                                   PullRequestNode(<<98>>, Hour, <<3 * Hour>>),
                                   IssueNode } } :
            l \in ReviewLists }

\* The errors graphqlClient.Query may return.
QueryErrors == FetchErrors \cup { CtxCanceled }

\* fmt.Errorf("failed to execute GraphQL query for lead times: %w", err)
WrapQueryError(err) ==
    CASE err = "github api error" ->
           "failed to execute GraphQL query for lead times: github api error"
      [] err = "rate limited" ->
           "failed to execute GraphQL query for lead times: rate limited"
      [] err = CtxCanceled ->
           "failed to execute GraphQL query for lead times: context canceled"

\* prNode.Reviews.Nodes: the server sends the first ReviewsFirst reviews.
ReviewNodes(edge) ==
    SubSeq(edge.Reviews, 1,
           IF Len(edge.Reviews) < ReviewsFirst THEN Len(edge.Reviews) ELSE ReviewsFirst)

\* The loop over Nodes[1:], from lastReviewedAt = Nodes[0].SubmittedAt: a later
\* timestamp replaces it.
RECURSIVE LatestReview(_, _)
LatestReview(lastReviewedAt, nodes) ==
    IF nodes = <<>> THEN lastReviewedAt
    ELSE LatestReview(IF Head(nodes) > lastReviewedAt THEN Head(nodes)
                      ELSE lastReviewedAt,
                      Tail(nodes))

\* if edge.Node.Typename != "PullRequest" || len(prNode.Reviews.Nodes) == 0 { continue }
SkipEdge(edge) == edge.Typename # "PullRequest" \/ Len(ReviewNodes(edge)) = 0

\* leadTimesByRepo[repoName] = append(leadTimesByRepo[repoName], data)
AppendDatum(m, repoName, data) ==
    MakeMap([ n \in Keys(m) \cup {repoName} |->
                IF n = repoName
                THEN (IF n \in Keys(m) THEN Append(m.kv[n], data) ELSE <<data>>)
                ELSE m.kv[n] ])

\* The body of the loop over q.Search.Edges for one edge.
AddEdge(m, edge) ==
    IF SkipEdge(edge) THEN m
    ELSE AppendDatum(m, edge.NameWithOwner,
                     [ CreatedAt |-> edge.CreatedAt,
                       LastReviewedAt |->
                         LatestReview(Head(ReviewNodes(edge)), Tail(ReviewNodes(edge))) ])

\* for _, edge := range q.Search.Edges { ... }
RECURSIVE AddEdges(_, _)
AddEdges(m, edges) ==
    IF edges = <<>> THEN m ELSE AddEdges(AddEdge(m, Head(edges)), Tail(edges))

\* q.Search.PageInfo.EndCursor of the page requested after `after`.
EndCursor(after) ==
    IF after + PageSize < Len(searchResult) THEN after + PageSize ELSE Len(searchResult)

\* q.Search.Edges of the page requested after `after`.
PageEdges(after) == SubSeq(searchResult, after + 1, EndCursor(after))

\* Mutant of HasNextPage: the loop takes every page for the last.
HasNextPageNever(after) == FALSE

\* q.Search.PageInfo.HasNextPage of the page requested after `after`.
HasNextPage(after) == EndCursor(after) < Len(searchResult)

\* Mutant of FailedFetch: what was gathered before the failure is returned.
FailedFetchPartial(partial, err) == [returned |-> TRUE, m |-> partial, err |-> err]

\* return nil, fmt.Errorf(...): the local map is dropped.
FailedFetch(partial, err) == [returned |-> TRUE, m |-> NilMap, err |-> err]

\* Mutant of AdvanceCursor: the next request starts over.
AdvanceCursorReset(reported) == 0

\* variables["cursor"] = q.Search.PageInfo.EndCursor; opts.Page = resp.NextPage
AdvanceCursor(reported) == reported

\* FetchPRLeadTimes is called: nil cursor, leadTimesByRepo made empty.
GatewayCalled ==
    /\ gwPc = "query"
    /\ searchResult \in SearchResults
    /\ cursor = 0
    /\ gwLeadTimesByRepo = MakeMap(<<>>)
    /\ gwResult = NoGatewayResult
    /\ gwMethod = "FetchPRLeadTimes"
    /\ gwCounts = NilMap
    /\ requests = <<>>

InitLeadTimes == AggregatorIdle /\ CliOff /\ GatewayCalled

\* The query succeeds and reports a next page: take the edges, move the cursor.
QueryNextPage ==
    /\ gwPc = "query"
    /\ gwMethod = "FetchPRLeadTimes"
    /\ HasNextPage(cursor)
    /\ requests' = Append(requests, cursor)
    /\ gwLeadTimesByRepo' = AddEdges(gwLeadTimesByRepo, PageEdges(cursor))
    /\ cursor' = AdvanceCursor(EndCursor(cursor))
    /\ UNCHANGED <<gwPc, searchResult, gwResult, gwMethod, gwCounts>>
    /\ UNCHANGED <<aggregatorVars, cliVars>>

\* The query succeeds and reports no next page: take the edges, break, return the map.
QueryLastPage ==
    /\ gwPc = "query"
    /\ gwMethod = "FetchPRLeadTimes"
    /\ ~HasNextPage(cursor)
    /\ requests' = Append(requests, cursor)
    /\ gwLeadTimesByRepo' = AddEdges(gwLeadTimesByRepo, PageEdges(cursor))
    /\ gwResult' = [returned |-> TRUE, m |-> gwLeadTimesByRepo', err |-> NilErr]
    /\ gwPc' = "returned"
    /\ UNCHANGED <<searchResult, cursor, gwMethod, gwCounts>>
    /\ UNCHANGED <<aggregatorVars, cliVars>>

\* The query fails: return nil and the wrapped error.
QueryFails ==
    /\ gwPc = "query"
    /\ gwMethod = "FetchPRLeadTimes"
    /\ requests' = Append(requests, cursor)
    /\ \E err \in QueryErrors :
         gwResult' = FailedFetch(gwLeadTimesByRepo, WrapQueryError(err))
    /\ gwPc' = "returned"
    /\ UNCHANGED <<searchResult, cursor, gwLeadTimesByRepo, gwMethod, gwCounts>>
    /\ UNCHANGED <<aggregatorVars, cliVars>>

NextLeadTimes ==
    \/ QueryNextPage
    \/ QueryLastPage
    \/ QueryFails

SpecLeadTimes == InitLeadTimes /\ [][NextLeadTimes]_vars

\* ------------------------- GitHubGateway: FetchCommits and fetchPRCounts

\* The most commits or pull requests a count search matches.
MaxItems == 5

\* The repository name a commit item or a search edge carries; empty when the item
\* has no repository or the node is no pull request.
ItemRepoNames == CountRepoNames \cup { <<>> }

\* What a count search may match, as the repository names of its items in order.
CountSearchResults == SeqsUpTo(ItemRepoNames, MaxItems)

\* The Fetch methods that return counts.
CountMethods == { "FetchCommits", "FetchCreatedPRs", "FetchReviewedPRs" }

\* fmt.Errorf("failed to search commits with REST API: %w", err)
WrapSearchError(err) ==
    CASE err = "github api error" ->
           "failed to search commits with REST API: github api error"
      [] err = "rate limited" ->
           "failed to search commits with REST API: rate limited"
      [] err = CtxCanceled ->
           "failed to search commits with REST API: context canceled"

\* fmt.Errorf("failed to execute GraphQL query for counts: %w", err)
WrapCountsError(err) ==
    CASE err = "github api error" ->
           "failed to execute GraphQL query for counts: github api error"
      [] err = "rate limited" ->
           "failed to execute GraphQL query for counts: rate limited"
      [] err = CtxCanceled ->
           "failed to execute GraphQL query for counts: context canceled"

\* Mutant of Increment: the first item of a repository leaves its count at zero.
IncrementFromAbsent(m, repoName) ==
    MakeMap([ n \in Keys(m) \cup {repoName} |->
                IF n = repoName
                THEN (IF n \in Keys(m) THEN m.kv[n] + 1 ELSE 0)
                ELSE m.kv[n] ])

\* commitCounts[repoName]++ and prCounts[repoName]++: a missing key counts from 0.
Increment(m, repoName) ==
    MakeMap([ n \in Keys(m) \cup {repoName} |->
                IF n = repoName
                THEN (IF n \in Keys(m) THEN m.kv[n] ELSE 0) + 1
                ELSE m.kv[n] ])

\* for _, commit := range result.Commits { commitCounts[repoName]++ }
RECURSIVE CountCommits(_, _)
CountCommits(m, items) ==
    IF items = <<>> THEN m
    ELSE CountCommits(Increment(m, Head(items)), Tail(items))

\* Mutant of CountsEdge: every edge is counted.
CountsEdgeAlways(repoName) == TRUE

\* if repoName := ...NameWithOwner; repoName != "" { ... }
CountsEdge(repoName) == repoName # <<>>

\* for _, edge := range q.Search.Edges { if repoName != "" { prCounts[repoName]++ } }
RECURSIVE CountEdges(_, _)
CountEdges(m, edges) ==
    IF edges = <<>> THEN m
    ELSE CountEdges(IF CountsEdge(Head(edges)) THEN Increment(m, Head(edges)) ELSE m,
                    Tail(edges))

\* The page the REST search sends for opts.Page = page: page 1 when it is 0.
PageNumber(page) == IF page = 0 THEN 1 ELSE page

\* result.Commits of the response to opts.Page = page.
CommitsPage(page) ==
    LET last == PageNumber(page) * PageSize
    IN  SubSeq(searchResult, (PageNumber(page) - 1) * PageSize + 1,
               IF last < Len(searchResult) THEN last ELSE Len(searchResult))

\* resp.NextPage of the response to opts.Page = page: 0 when there is none.
NextPage(page) ==
    IF PageNumber(page) * PageSize < Len(searchResult) THEN PageNumber(page) + 1 ELSE 0

\* A count method of the gateway is called: default page or nil cursor, the
\* counts map made empty.
CountsCalled ==
    /\ gwPc = "query"
    /\ gwMethod \in CountMethods
    /\ searchResult \in CountSearchResults
    /\ cursor = 0
    /\ gwCounts = MakeMap(<<>>)
    /\ gwLeadTimesByRepo = NilMap
    /\ gwResult = NoGatewayResult
    /\ requests = <<>>

\* FetchCommits: the search succeeds and reports a next page.
SearchCommitsNextPage ==
    /\ gwPc = "query"
    /\ gwMethod = "FetchCommits"
    /\ NextPage(cursor) # 0
    /\ requests' = Append(requests, cursor)
    /\ gwCounts' = CountCommits(gwCounts, CommitsPage(cursor))
    /\ cursor' = AdvanceCursor(NextPage(cursor))
    /\ UNCHANGED <<gwPc, searchResult, gwLeadTimesByRepo, gwResult, gwMethod>>
    /\ UNCHANGED <<aggregatorVars, cliVars>>

\* FetchCommits: the search succeeds with resp.NextPage == 0: break, return the map.
SearchCommitsLastPage ==
    /\ gwPc = "query"
    /\ gwMethod = "FetchCommits"
    /\ NextPage(cursor) = 0
    /\ requests' = Append(requests, cursor)
    /\ gwCounts' = CountCommits(gwCounts, CommitsPage(cursor))
    /\ gwResult' = [returned |-> TRUE, m |-> gwCounts', err |-> NilErr]
    /\ gwPc' = "returned"
    /\ UNCHANGED <<searchResult, cursor, gwLeadTimesByRepo, gwMethod>>
    /\ UNCHANGED <<aggregatorVars, cliVars>>

\* FetchCommits: the search fails: return nil and the wrapped error.
SearchCommitsFails ==
    /\ gwPc = "query"
    /\ gwMethod = "FetchCommits"
    /\ requests' = Append(requests, cursor)
    /\ \E err \in QueryErrors :
         gwResult' = FailedFetch(gwCounts, WrapSearchError(err))
    /\ gwPc' = "returned"
    /\ UNCHANGED <<searchResult, cursor, gwLeadTimesByRepo, gwMethod, gwCounts>>
    /\ UNCHANGED <<aggregatorVars, cliVars>>

\* fetchPRCounts: the query succeeds and reports a next page.
CountQueryNextPage ==
    /\ gwPc = "query"
    /\ gwMethod \in { "FetchCreatedPRs", "FetchReviewedPRs" }
    /\ HasNextPage(cursor)
    /\ requests' = Append(requests, cursor)
    /\ gwCounts' = CountEdges(gwCounts, PageEdges(cursor))
    /\ cursor' = AdvanceCursor(EndCursor(cursor))
    /\ UNCHANGED <<gwPc, searchResult, gwLeadTimesByRepo, gwResult, gwMethod>>
    /\ UNCHANGED <<aggregatorVars, cliVars>>

\* fetchPRCounts: the query succeeds and reports no next page: break, return the map.
CountQueryLastPage ==
    /\ gwPc = "query"
    /\ gwMethod \in { "FetchCreatedPRs", "FetchReviewedPRs" }
    /\ ~HasNextPage(cursor)
    /\ requests' = Append(requests, cursor)
    /\ gwCounts' = CountEdges(gwCounts, PageEdges(cursor))
    /\ gwResult' = [returned |-> TRUE, m |-> gwCounts', err |-> NilErr]
    /\ gwPc' = "returned"
    /\ UNCHANGED <<searchResult, cursor, gwLeadTimesByRepo, gwMethod>>
    /\ UNCHANGED <<aggregatorVars, cliVars>>

\* fetchPRCounts: the query fails: return nil and the wrapped error.
CountQueryFails ==
    /\ gwPc = "query"
    /\ gwMethod \in { "FetchCreatedPRs", "FetchReviewedPRs" }
    /\ requests' = Append(requests, cursor)
    /\ \E err \in QueryErrors :
         gwResult' = FailedFetch(gwCounts, WrapCountsError(err))
    /\ gwPc' = "returned"
    /\ UNCHANGED <<searchResult, cursor, gwLeadTimesByRepo, gwMethod, gwCounts>>
    /\ UNCHANGED <<aggregatorVars, cliVars>>

\* One call of any of the four Fetch methods.
InitGateway == AggregatorIdle /\ CliOff /\ (GatewayCalled \/ CountsCalled)

NextGateway ==
    \/ QueryNextPage
    \/ QueryLastPage
    \/ QueryFails
    \/ SearchCommitsNextPage
    \/ SearchCommitsLastPage
    \/ SearchCommitsFails
    \/ CountQueryNextPage
    \/ CountQueryLastPage
    \/ CountQueryFails

SpecGateway == InitGateway /\ [][NextGateway]_vars

\* ------------------------------------------------------------------ claims

\* The call has returned a result and no error.
ReturnedOK == result.returned /\ result.err = NilErr
\* The records of the returned sequence.
Records == result.stats.elems
RecordSet == { Records[i] : i \in 1..Len(Records) }
\* The source maps the merge reads.
MergedKeys ==
    Keys(commitCounts) \cup Keys(createdPRCounts) \cup Keys(reviewedPRCounts)
      \cup (IF calculateLeadTime THEN Keys(leadTimesByRepo) ELSE {})
\* The count a count map holds for a name, 0 when the name is no key of it.
CountOr0(m, name) == IF name \in Keys(m) THEN m.kv[name] ELSE 0
\* The tasks of the call that returned without an error.
Succeeded(t) == task[t] = "done" /\ \A i \in 1..Len(failures) : failures[i].task # t

\* C1: fail-fast.  Once a call has returned, if any launched fetch returned an
\* error the result is nil and the error is not nil; and a non-nil error never
\* comes with a non-nil result.
C1_FailFast ==
    result.returned =>
      /\ (failures # <<>> => result.stats.isNil /\ result.err # NilErr)
      /\ (result.err # NilErr => result.stats.isNil)

\* C1 witness: a call returned an error although exactly one fetch failed and the
\* other three succeeded with non-empty maps.
C1_Witness ==
    /\ result.returned
    /\ result.err # NilErr
    /\ result.stats.isNil
    /\ Len(failures) = 1
    /\ failures[1].task = "createdPRs"
    /\ Succeeded("commits") /\ Keys(commitCounts) # {}
    /\ Succeeded("reviewedPRs") /\ Keys(reviewedPRCounts) # {}
    /\ Succeeded("leadTimes") /\ Keys(leadTimesByRepo) # {}

\* C2: first error wins, unchanged.  The error a call returns is the error value
\* of the task that failed first; no later failure replaces it.
C2_FirstErrorWins ==
    (result.returned /\ failures # <<>>) => result.err = failures[1].err

\* C2 witness: a call returned its first failure's error after a sibling failed
\* with another error and a third with the context's cancellation error.
C2_Witness ==
    /\ result.returned
    /\ Len(failures) >= 3
    /\ failures[1].err = "rate limited"
    /\ failures[2].err = "github api error"
    /\ failures[3].err = CtxCanceled
    /\ result.err = "rate limited"

\* C3: merge completeness of values.  In a successful result every record's
\* commits, createdPRs and reviewedPRs equal the value its name has in the
\* corresponding count map, and 0 when the name is no key of that map.
C3_MergeValues ==
    ReturnedOK =>
      \A r \in RecordSet :
        /\ r.Commits = CountOr0(commitCounts, r.Name)
        /\ r.CreatedPRs = CountOr0(createdPRCounts, r.Name)
        /\ r.ReviewedPRs = CountOr0(reviewedPRCounts, r.Name)

\* C3 witness: the shape of the repository's own test: commits {a:2, b:1},
\* created {a:1}, reviewed {b:2} gives a = (2,1,0) and b = (1,0,2).
C3_Witness ==
    /\ ReturnedOK
    /\ Len(Records) = 2
    /\ Records[1].Commits = 2 /\ Records[1].CreatedPRs = 1 /\ Records[1].ReviewedPRs = 0
    /\ Records[2].Commits = 1 /\ Records[2].CreatedPRs = 0 /\ Records[2].ReviewedPRs = 2

\* C4: map union is total and duplicate-free.  In a successful result the set of
\* names is the union of the key sets of the merged source maps (the lead-time
\* map only when lead time is enabled), and no name occurs twice.
C4_UnionOfKeys ==
    ReturnedOK =>
      /\ { r.Name : r \in RecordSet } = MergedKeys
      /\ \A i, j \in 1..Len(Records) : Records[i].Name = Records[j].Name => i = j

\* C4 witness: a repository that is a key of the lead-time map only, with an empty
\* list there, has a record next to the repositories of the count maps.
C4_Witness ==
    /\ ReturnedOK
    /\ calculateLeadTime
    /\ Keys(leadTimesByRepo) = { <<97, 98>> }
    /\ leadTimesByRepo.kv[<<97, 98>>] = <<>>
    /\ Len(Records) = 3
    /\ Records[2].Name = <<97, 98>>

\* C5: sorted output.  A successful result is in strictly ascending byte order of
\* repository name.
C5_Sorted ==
    ReturnedOK =>
      \A i \in 1..(Len(Records) - 1) : LessStr(Records[i].Name, Records[i + 1].Name)

\* C5 witness: a successful result with three records, "a" < "ab" < "b".
C5_Witness ==
    /\ ReturnedOK
    /\ Len(Records) = 3
    /\ Records[1].Name = <<97>>
    /\ Records[3].Name = <<98>>

\* One fixed order of the elements of S.
CanonicalOrder(S) == CHOOSE o \in Orderings(S) : TRUE

\* The result of the merge and sort with every map ranged over in its fixed order.
CanonicalResult ==
    LET statsMap == MergeAll(calculateLeadTime, commitCounts, createdPRCounts,
                             reviewedPRCounts, leadTimesByRepo,
                             CanonicalOrder(Keys(commitCounts)),
                             CanonicalOrder(Keys(createdPRCounts)),
                             CanonicalOrder(Keys(reviewedPRCounts)),
                             CanonicalOrder(Keys(leadTimesByRepo)))
    IN  SortedStats(statsMap, CanonicalOrder(DOMAIN statsMap))

\* C6: deterministic output.  A successful result is a function of the flag and of
\* the contents of the maps the fetches returned: whatever order the tasks
\* completed in and the maps were ranged over, it is the sequence obtained with
\* one fixed iteration order.
C6_Deterministic == ReturnedOK => result.stats = CanonicalResult

\* C6 witness: a successful result with three records, two of the source maps
\* having two keys each, so that the ranges had several orders to choose from.
C6_Witness ==
    /\ ReturnedOK
    /\ Len(Records) = 3
    /\ Cardinality(Keys(commitCounts)) = 2
    /\ Cardinality(Keys(reviewedPRCounts)) = 2

\* C7: success shape.  When every launched fetch succeeded the call returns a
\* non-nil sequence and a nil error; when no source map has a key the sequence
\* is empty.
C7_SuccessShape ==
    (result.returned /\ failures = <<>>) =>
      /\ ~result.stats.isNil
      /\ result.err = NilErr
      /\ (MergedKeys = {} => Records = <<>>)

\* C7 witness: all four fetches returned empty, non-nil maps and the call
\* returned an empty, non-nil sequence.
C7_Witness ==
    /\ ReturnedOK
    /\ calculateLeadTime
    /\ \A t \in Tasks : Succeeded(t)
    /\ commitCounts = MakeMap(<<>>) /\ createdPRCounts = MakeMap(<<>>)
    /\ reviewedPRCounts = MakeMap(<<>>) /\ leadTimesByRepo = MakeMap(<<>>)
    /\ ~result.stats.isNil
    /\ Len(Records) = 0

\* C8: lead-time opt-out.  In a call with lead time disabled FetchPRLeadTimes is
\* never launched or invoked, and every record of the result has no samples.
C8_OptOut ==
    ~calculateLeadTime =>
      /\ task["leadTimes"] = "none"
      /\ (ReturnedOK => \A r \in RecordSet : r.LeadTimeToLastReviewSeconds = <<>>)

\* C8 witness: a call with lead time disabled returned two records.
C8_Witness ==
    /\ ReturnedOK
    /\ ~calculateLeadTime
    /\ Len(Records) = 2
    /\ \A t \in CountTasks : Succeeded(t)

\* The list the lead-time source returned for a name, empty when it is no key.
LeadTimeList(name) ==
    IF name \in Keys(leadTimesByRepo) THEN leadTimesByRepo.kv[name] ELSE <<>>

\* C9: lead-time derivation.  With lead time enabled, a record has one sample per
\* pair the source returned for its repository, the i-th sample is the i-th
\* pair's LastReviewedAt minus CreatedAt in seconds (3600 for a pair one hour
\* apart), in the source's order.
C9_Derivation ==
    (ReturnedOK /\ calculateLeadTime) =>
      \A r \in RecordSet :
        LET list == LeadTimeList(r.Name)
            samples == r.LeadTimeToLastReviewSeconds
        IN  /\ Len(samples) = Len(list)
            /\ \A i \in 1..Len(list) :
                 /\ samples[i] = list[i].LastReviewedAt - list[i].CreatedAt
                 /\ (list[i].LastReviewedAt = list[i].CreatedAt + Hour
                       => samples[i] = 3600)

\* C9 witness: the source returned two pairs for "ab", the first one hour apart,
\* and the record of "ab" has the two samples in that order.
C9_Witness ==
    /\ ReturnedOK
    /\ calculateLeadTime
    /\ Len(LeadTimeList(<<97, 98>>)) = 2
    /\ LeadTimeList(<<97, 98>>)[1].LastReviewedAt = LeadTimeList(<<97, 98>>)[1].CreatedAt + Hour
    /\ \E r \in RecordSet :
         /\ r.Name = <<97, 98>>
         /\ r.LeadTimeToLastReviewSeconds = <<3600, -7200>>

\* C10: every lead-time sample of every returned record is a non-negative
\* number of seconds.
C10_NonNegativeSamples ==
    ReturnedOK =>
      \A r \in RecordSet :
        \A i \in 1..Len(r.LeadTimeToLastReviewSeconds) :
          r.LeadTimeToLastReviewSeconds[i] >= 0

\* C11: caller cancellation.  When the caller's context was cancelled before all
\* fetches of the call had returned, the call returns a nil result and the
\* context's cancellation error.
C11_CallerCancellation ==
    (result.returned /\ callerCancelled) =>
      /\ result.stats.isNil
      /\ result.err = CtxCanceled

\* C12: sibling cancellation.  Once a task has returned an error egCtx is done, so
\* a sibling still running can observe it; and while the call has not returned
\* and the caller has not cancelled, egCtx is done only if a task has failed.
C12_SiblingCancellation ==
    /\ (failures # <<>> => egCtxCancelled)
    /\ (egCtxCancelled /\ ~callerCancelled /\ ~result.returned => failures # <<>>)

\* C12 witness: the caller has not cancelled, one task failed with an error of
\* its own, and a sibling that was still running then returned the cancellation
\* error it observed on egCtx, while a third is still running.
C12_Witness ==
    /\ ~callerCancelled
    /\ egCtxCancelled
    /\ Len(failures) = 2
    /\ failures[1].err \in FetchErrors
    /\ failures[2].err = CtxCanceled
    /\ \E t \in Tasks : task[t] = "running"

\* C13: join before merge.  A call has returned, with a result or with an error,
\* only when every task it launched has returned: the three count fetches, and
\* the lead-time fetch when lead time is enabled.
C13_JoinBeforeReturn ==
    result.returned =>
      /\ \A t \in CountTasks : task[t] = "done"
      /\ task["leadTimes"] = (IF calculateLeadTime THEN "done" ELSE "none")

\* C13 witness: a call returned the error of its commits fetch, and its three
\* siblings had returned their maps by then.
C13_Witness ==
    /\ result.returned
    /\ result.err # NilErr
    /\ Len(failures) = 1
    /\ failures[1].task = "commits"
    /\ \A t \in Tasks \ {"commits"} : Succeeded(t)

\* The tasks the call in progress has launched so far.
Launched == { t \in Tasks : task[t] # "none" }

\* The tasks one call launches: three, or four with lead time.
FanOut == IF calculateLeadTime THEN Tasks ELSE CountTasks

\* C14: bounded fan-out without retry.  A call never launches a task outside its
\* fan-out (the three count fetches, plus FetchPRLeadTimes when lead time is
\* enabled), and has launched exactly those once it waits; no Fetch method is
\* invoked twice in one call, and by the time the call returns FetchCommits,
\* FetchCreatedPRs and FetchReviewedPRs have each been invoked exactly once,
\* whether or not a sibling failed.
C14_BoundedFanOut ==
    /\ Launched \subseteq FanOut
    /\ pc \in {"wait", "returned"} =>
         /\ Launched = FanOut
         /\ Cardinality(Launched) = (IF calculateLeadTime THEN 4 ELSE 3)
    /\ \A t \in Tasks : Len(calls[t]) <= 1
    /\ \A t \in Tasks \ Launched : calls[t] = <<>>
    /\ result.returned => \A t \in CountTasks : Len(calls[t]) = 1

\* A call returned the error of FetchCommits, the first task launched; the other
\* two count fetches were still invoked, each once, and no fourth task ran.
C14_Witness ==
    /\ result.returned
    /\ ~calculateLeadTime
    /\ Len(failures) = 1
    /\ failures[1].task = "commits"
    /\ result.err = failures[1].err
    /\ Cardinality(Launched) = 3
    /\ \A t \in CountTasks : Len(calls[t]) = 1

\* The task whose closure names each slot on the left of its assignment.
SlotWriter ==
    [s \in Slots |->
       CASE s = "commitCounts" -> "commits"
         [] s = "createdPRCounts" -> "createdPRs"
         [] s = "reviewedPRCounts" -> "reviewedPRs"
         [] s = "leadTimesByRepo" -> "leadTimes"]

\* C15: single-writer slots.  Each slot is assigned by its own fetch task only; once
\* the call has returned, every slot of a launched task has been written by exactly
\* that one task; and when the merge read the slots no task was still unfinished.
C15_SingleWriter ==
    /\ \A s \in Slots : writers[s] \subseteq {SlotWriter[s]}
    /\ result.returned =>
         \A s \in Slots :
           writers[s] = (IF SlotWriter[s] \in FanOut THEN {SlotWriter[s]} ELSE {})
    /\ racing = {}

\* A call with lead time returned a merged result: all four slots were written,
\* each by one task, and hold entries the merge read.
C15_Witness ==
    /\ ReturnedOK
    /\ calculateLeadTime
    /\ \A s \in Slots : Cardinality(writers[s]) = 1
    /\ racing = {}
    /\ Keys(commitCounts) # {}
    /\ Keys(createdPRCounts) # {}
    /\ Keys(reviewedPRCounts) # {}
    /\ Keys(leadTimesByRepo) # {}

\* C16: filter routing.  Every invocation of FetchCommits receives the commit date
\* filter, every invocation of FetchCreatedPRs, FetchReviewedPRs and
\* FetchPRLeadTimes the PR date filter, and all of them the org and user given to
\* Aggregate.
C16_FilterRouting ==
    \A t \in Tasks : \A i \in 1..Len(calls[t]) :
      /\ calls[t][i].org = Org
      /\ calls[t][i].user = User
      /\ calls[t][i].dateRange =
           (IF t = "commits" THEN CommitDateRange ELSE PRDateRange)

\* All four Fetch methods have been invoked in one call, and the two filters differ.
C16_Witness ==
    /\ calculateLeadTime
    /\ \A t \in Tasks : Len(calls[t]) = 1
    /\ CommitDateRange # PRDateRange
    /\ calls["commits"][1].dateRange # calls["leadTimes"][1].dateRange

\* The JSON documents statsCmd has printed, one entry per record of domainResults.
Printed == cliPc = "exit0" /\ Len(stdout) = 1 /\ Len(stdout[1]) = Len(domainResults)

\* C17: percentile omission.  In the printed JSON, the object of a repository with
\* zero lead-time samples has neither an analyzed_pr_count nor a
\* lead_time_percentiles_hours key, whether or not lead time was requested.
C17_PercentileOmission ==
    Printed =>
      \A i \in 1..Len(domainResults) :
        domainResults[i].LeadTimeToLastReviewSeconds = <<>> =>
          /\ "analyzed_pr_count" \notin DOMAIN stdout[1][i]
          /\ "lead_time_percentiles_hours" \notin DOMAIN stdout[1][i]

\* Lead time was requested; one printed repository has no sample and neither key,
\* the other has samples and both.
C17_Witness ==
    /\ Printed
    /\ leadTimeFlag
    /\ Len(domainResults) = 2
    /\ domainResults[1].LeadTimeToLastReviewSeconds = <<>>
    /\ DOMAIN stdout[1][1] = { "name", "commits", "created_prs", "reviewed_prs" }
    /\ domainResults[2].LeadTimeToLastReviewSeconds # <<>>
    /\ "lead_time_percentiles_hours" \in DOMAIN stdout[1][2]

\* The five values of a printed lead_time_percentiles_hours object.
PrintedPercentiles(i) ==
    LET h == stdout[1][i]["lead_time_percentiles_hours"]
    IN  { h.p50_hours, h.p75_hours, h.p90_hours, h.p95_hours, h.p99_hours }

\* C18: single-sample percentiles.  For a repository with exactly one sample of s
\* seconds every printed percentile is the fraction s/3600 (hours), and for
\* s = 3600 each is 1.
C18_SingleSample ==
    (Printed /\ leadTimeFlag) =>
      \A i \in 1..Len(domainResults) :
        LET samples == domainResults[i].LeadTimeToLastReviewSeconds
        IN  Len(samples) = 1 =>
              /\ "lead_time_percentiles_hours" \in DOMAIN stdout[1][i]
              /\ \A h \in PrintedPercentiles(i) :
                   /\ h.den > 0
                   /\ h.num * 3600 = samples[1] * h.den
                   /\ samples[1] = 3600 => h = [num |-> 1, den |-> 1]

\* A repository with the single sample 3600 was printed with 1 hour everywhere, and
\* one with the single sample 1800 with half an hour.
C18_Witness ==
    /\ Printed
    /\ Len(domainResults) = 2
    /\ domainResults[1].LeadTimeToLastReviewSeconds = <<3600>>
    /\ PrintedPercentiles(1) = { [num |-> 1, den |-> 1] }
    /\ domainResults[2].LeadTimeToLastReviewSeconds = <<1800>>
    /\ PrintedPercentiles(2) = { [num |-> 1, den |-> 2] }

\* FetchPRLeadTimes has returned a map and no error.
GatewayOK == gwResult.returned /\ gwResult.err = NilErr

\* The pull requests of repository n the search matched that have a review, in the
\* order of the search.
ReviewedPRsOf(n) ==
    SelectSeq(searchResult,
              LAMBDA e : e.Typename = "PullRequest" /\ e.NameWithOwner = n
                         /\ e.Reviews # <<>>)

\* The data FetchPRLeadTimes returned for repository n.
DataOf(n) == IF n \in Keys(gwResult.m) THEN gwResult.m.kv[n] ELSE <<>>

MaxOf(times) ==
    CHOOSE x \in { times[i] : i \in 1..Len(times) } :
      \A i \in 1..Len(times) : times[i] <= x

\* C20: when FetchPRLeadTimes succeeds, the lastReviewedAt of every datum is the
\* maximum of all review submission timestamps of its pull request, in whatever
\* order the reviews are listed.
C20_LastReviewIsMax ==
    GatewayOK =>
      \A n \in CountRepoNames :
        \A k \in 1..Len(DataOf(n)) :
          k <= Len(ReviewedPRsOf(n)) =>
            DataOf(n)[k].LastReviewedAt = MaxOf(ReviewedPRsOf(n)[k].Reviews)

\* The Fetch method has returned.
GatewayReturned == gwPc = "returned" /\ gwResult.returned

\* The response to the last request sent reported no further page.
LastPageRead ==
    /\ requests # <<>>
    /\ IF gwMethod = "FetchCommits"
       THEN NextPage(requests[Len(requests)]) = 0
       ELSE ~HasNextPage(requests[Len(requests)])

\* C21: no partial fetch result.  Whichever Fetch method of the gateway is called,
\* it returns either a nil map with an error, also when pages were read before the
\* failing request, or a non-nil map with a nil error after the page that reports
\* no next page has been read.
C21_NoPartialResult ==
    /\ ~GatewayReturned => gwResult = NoGatewayResult
    /\ GatewayReturned =>
         \/ gwResult.err # NilErr /\ gwResult.m.isNil
         \/ gwResult.err = NilErr /\ ~gwResult.m.isNil /\ LastPageRead

\* FetchCreatedPRs failed on its third request after counting two pages: the counts
\* gathered are not returned.
C21_Witness ==
    /\ GatewayReturned
    /\ gwMethod = "FetchCreatedPRs"
    /\ Len(requests) = 3
    /\ Keys(gwCounts) = CountRepoNames
    /\ gwResult.err = "failed to execute GraphQL query for counts: rate limited"
    /\ gwResult.m.isNil

\* A date flag that is given and is not a calendar date written yyyy/mm/dd.
Malformed(s) ==
    s # NoDate /\ ~(s.sep = "/" /\ s.m \in 1..12 /\ s.d >= 1 /\ s.d <= DaysIn(s.y, s.m))

\* The first configuration error of the run, in the order statsCmd checks them.
ConfigError ==
    IF token = "" THEN "Error: GITHUB_TOKEN environment variable is not set."
    ELSE IF Malformed(fromStr) THEN "Invalid --from date format"
    ELSE IF Malformed(toStr) THEN "Invalid --to date format"
    ELSE "none"

\* C22: configuration errors precede network activity.  When GITHUB_TOKEN is
\* missing or --from / --to is malformed, no gateway is ever created and Aggregate
\* (the only caller of the Fetcher) is never called; the run either is still before
\* the check that detects the error, or has exited 1 with exactly the message of
\* that error on standard error and nothing on standard output.
C22_ConfigErrorsFirst ==
    ConfigError # "none" =>
      /\ gatewayCalls = <<>>
      /\ aggregateCalls = <<>>
      /\ pc = "idle"
      /\ gwPc = "off"
      /\ \/ cliPc \in {"token", "dates"} /\ stderr = <<>> /\ stdout = <<>>
         \/ /\ cliPc = "exit1"
            /\ Len(stderr) = 1
            /\ stderr[1].text = ConfigError
            /\ stdout = <<>>

\* A run with a token, a good --from and the day 2025/02/30 as --to has exited 1
\* with the --to message, and no gateway was created.
C22_Witness ==
    /\ cliPc = "exit1"
    /\ token = Token
    /\ fromStr = DateString("/", 2025, 1, 31)
    /\ toStr = DateString("/", 2025, 2, 30)
    /\ stderr = <<Diagnostic("Invalid --to date format", "day out of range")>>
    /\ gatewayCalls = <<>>
    /\ aggregateCalls = <<>>

\* A run is over.
Exited == cliPc \in {"exit0", "exit1"}

\* Something failed in the run: a configuration error, the gateway's construction,
\* Aggregate, or the serialization.
RunFailed ==
    \/ ConfigError # "none"
    \/ stderr # <<>> /\ stderr[Len(stderr)].text = "Failed to initialize GitHub gateway"
    \/ \E i \in 1..Len(aggregateCalls) : aggregateCalls[i].err # NilErr
    \/ Len(outputResults) = Len(domainResults) /\ MarshalFails(outputResults)

\* C23: all-or-nothing output.  Nothing is printed before the run is over.  A run
\* that exits 0 has printed exactly one JSON array, the array of its output
\* records, and nothing on standard error, and nothing failed in it.  A run in
\* which something failed ends with exit 1, no JSON and one diagnostic on standard
\* error.
C23_AllOrNothing ==
    /\ ~Exited => stdout = <<>>
    /\ cliPc = "exit0" =>
         /\ ~RunFailed
         /\ Len(stdout) = 1
         /\ DOMAIN stdout[1] = 1..Len(domainResults)
         /\ \A i \in 1..Len(domainResults) : stdout[1][i].name = domainResults[i].Name
         /\ stderr = <<>>
         /\ Len(aggregateCalls) = 1
    /\ cliPc = "exit1" => RunFailed /\ stdout = <<>> /\ Len(stderr) = 1
    /\ (Exited /\ RunFailed) => cliPc = "exit1"
    /\ (RunFailed /\ ~Exited) => cliPc \in {"token", "dates"}

\* A run with date flags whose Aggregate failed with "rate limited": exit 1, the
\* diagnostic on standard error, no JSON.
C23_Witness ==
    /\ cliPc = "exit1"
    /\ fromStr = DateString("/", 2025, 1, 31)
    /\ Len(aggregateCalls) = 1
    /\ aggregateCalls[1].err = "rate limited"
    /\ aggregateCalls[1].args.prDateRange =
         DateRange(" created:", DateString("-", 2025, 1, 31), AnyDate)
    /\ stderr = <<Diagnostic("Failed to aggregate stats", "rate limited")>>
    /\ stdout = <<>>

\* The record the merge builds for a name from the maps the fetches of this call
\* returned, written without the merge's operators.
RecordOf(name) ==
    [ Name |-> name,
      Commits |-> CountOr0(commitCounts, name),
      CreatedPRs |-> CountOr0(createdPRCounts, name),
      ReviewedPRs |-> CountOr0(reviewedPRCounts, name),
      LeadTimeToLastReviewSeconds |->
        IF calculateLeadTime
        THEN [ i \in 1..Len(LeadTimeList(name)) |->
                 LeadTimeList(name)[i].LastReviewedAt - LeadTimeList(name)[i].CreatedAt ]
        ELSE <<>> ]

\* A slot holds a map only if a fetch of the call in progress stored one.
SlotsOfThisCall ==
    /\ ~commitCounts.isNil => writers["commitCounts"] # {}
    /\ ~createdPRCounts.isNil => writers["createdPRCounts"] # {}
    /\ ~reviewedPRCounts.isNil => writers["reviewedPRCounts"] # {}
    /\ ~leadTimesByRepo.isNil => writers["leadTimesByRepo"] # {}

\* C24: statelessness.  On an Aggregator that has been called before, a call in
\* progress has no result and its slots hold only what its own fetches stored; a
\* successful call returns one record per key of the maps of this call and no
\* other record, each record built from these maps alone; a failed call returns
\* nil and the error of this call's errgroup.
C24_Stateless ==
    /\ SlotsOfThisCall
    /\ pc # "returned" => result = NoResult
    /\ ReturnedOK =>
         /\ ~result.stats.isNil
         /\ Len(Records) = Cardinality(MergedKeys)
         /\ \A name \in MergedKeys : RecordOf(name) \in RecordSet
         /\ \A r \in RecordSet : r.Name \in MergedKeys
    /\ (result.returned /\ result.err # NilErr) =>
         /\ result.stats.isNil
         /\ result.err = egErr
         /\ failures # <<>> \/ callerCancelled

\* After the earlier call, a later call whose fetches found only repository "b",
\* one commit and no lead-time pair, returned that single record: neither
\* repository "a" nor a count or sample of the earlier call is in it.
C24_Witness ==
    /\ ReturnedOK
    /\ calculateLeadTime
    /\ Keys(commitCounts) = {<<98>>}
    /\ commitCounts.kv[<<98>>] = 1
    /\ Keys(createdPRCounts) = {}
    /\ Keys(reviewedPRCounts) = {}
    /\ Keys(leadTimesByRepo) = {}
    /\ Records = << [ Name |-> <<98>>, Commits |-> 1, CreatedPRs |-> 0, ReviewedPRs |-> 0,
                      LeadTimeToLastReviewSeconds |-> <<>> ] >>

\* A count method has returned a map and a nil error.
CountsOK == GatewayOK /\ gwMethod \in CountMethods

\* The field of RepoStats Aggregate assigns the counts of a method to.
CountField ==
    CASE gwMethod = "FetchCommits" -> "Commits"
      [] gwMethod = "FetchCreatedPRs" -> "CreatedPRs"
      [] gwMethod = "FetchReviewedPRs" -> "ReviewedPRs"

\* C25: non-negative counts.  Every count GitHubGateway holds or returns under a
\* key of a count map is an integer of at least 1, and the records Aggregate
\* builds from a returned map, in whatever order it ranges over it, have commits,
\* createdPRs and reviewedPRs that are integers of at least 0.
C25_NonNegativeCounts ==
    /\ \A n \in Keys(gwCounts) : gwCounts.kv[n] \in Nat /\ gwCounts.kv[n] >= 1
    /\ CountsOK =>
         /\ \A n \in Keys(gwResult.m) : gwResult.m.kv[n] \in Nat /\ gwResult.m.kv[n] >= 1
         /\ \A o \in Orderings(Keys(gwResult.m)) :
              LET statsMap == MergeCounts(<<>>, CountField, gwResult.m, o)
              IN  \A n \in DOMAIN statsMap :
                    /\ statsMap[n].Commits \in Nat
                    /\ statsMap[n].CreatedPRs \in Nat
                    /\ statsMap[n].ReviewedPRs \in Nat

\* FetchReviewedPRs returned counts for "a" and "b" after three pages, the count
\* of "b" being 1: the one edge that created its key.
C25_Witness ==
    /\ CountsOK
    /\ gwMethod = "FetchReviewedPRs"
    /\ Len(requests) = 3
    /\ Keys(gwResult.m) = CountRepoNames
    /\ gwResult.m.kv[<<98>>] = 1
    /\ gwResult.m.kv[<<97>>] = 3

\* The number of items of the search that carry the name n.
ItemsOf(n) == Len(SelectSeq(searchResult, LAMBDA e : e = n))

\* The names the method counts: every name of an item for FetchCommits, every
\* non-empty name of an edge for fetchPRCounts.
CountedNames ==
    { searchResult[i] : i \in 1..Len(searchResult) }
      \ (IF gwMethod = "FetchCommits" THEN {} ELSE { <<>> })

RECURSIVE SumOver(_, _)
SumOver(f, S) ==
    IF S = {} THEN 0
    ELSE LET n == CHOOSE x \in S : TRUE
         IN  f[n] + SumOver(f, S \ {n})

\* C26: paginated counting.  On success a count method returns, for exactly the
\* names it counts, the number of items of the whole search (all pages) that carry
\* the name; FetchCreatedPRs and FetchReviewedPRs have no key for the empty name;
\* the counts add up to the number of counted items.
C26_PaginatedCounting ==
    CountsOK =>
      /\ Keys(gwResult.m) = CountedNames
      /\ \A n \in CountedNames : gwResult.m.kv[n] = ItemsOf(n)
      /\ gwMethod # "FetchCommits" => <<>> \notin Keys(gwResult.m)
      /\ SumOver(gwResult.m.kv, Keys(gwResult.m)) =
           Len(searchResult) - (IF gwMethod = "FetchCommits" THEN 0 ELSE ItemsOf(<<>>))

\* FetchCreatedPRs read three pages holding a, "", b, a, "": it returned a -> 2 and
\* b -> 1 and no key for the empty name.
C26_Witness ==
    /\ CountsOK
    /\ gwMethod = "FetchCreatedPRs"
    /\ searchResult = << <<97>>, <<>>, <<98>>, <<97>>, <<>> >>
    /\ Len(requests) = 3
    /\ Keys(gwResult.m) = CountRepoNames
    /\ gwResult.m.kv[<<97>>] = 2
    /\ gwResult.m.kv[<<98>>] = 1

\* What the response to a request reports as the next page: the next page number
\* or end cursor, and whether there is a next page.
ReportsNextPage(req) ==
    IF gwMethod = "FetchCommits" THEN NextPage(req) # 0 ELSE HasNextPage(req)
ReportedNext(req) ==
    IF gwMethod = "FetchCommits" THEN NextPage(req) ELSE EndCursor(req)

\* C27: sequential pagination protocol.  The requests of one fetch form one
\* sequence; the first carries no cursor (the default page); every further
\* request follows a response that reported a next page and carries the cursor or
\* page number that response reported; while the fetch is running the next
\* request to send carries what the last response reported; a fetch that returned
\* a map stopped at the first response that reported no next page.
C27_SequentialPagination ==
    /\ requests # <<>> => requests[1] = 0
    /\ \A k \in 1..(Len(requests) - 1) :
         /\ ReportsNextPage(requests[k])
         /\ requests[k + 1] = ReportedNext(requests[k])
    /\ gwPc = "query" =>
         cursor = IF requests = <<>> THEN 0 ELSE ReportedNext(requests[Len(requests)])
    /\ GatewayOK => requests # <<>> /\ ~ReportsNextPage(requests[Len(requests)])

\* FetchCommits over five items: the default page, then pages 2 and 3 as the
\* responses reported them, and the return after page 3 reported no next page.
C27_Witness ==
    /\ GatewayOK
    /\ gwMethod = "FetchCommits"
    /\ Len(searchResult) = 5
    /\ requests = <<0, 2, 3>>

\* A call of Aggregate is in progress.
InCall == pc \notin {"idle", "returned"}

\* C28: termination.  Under fair scheduling, and with every called fetch
\* returning, every call of Aggregate returns; and whenever a call has returned,
\* also with the error of a failed fetch, every fetch it launched has returned:
\* Aggregate waits for the siblings of a failed fetch.
C28_Termination ==
    /\ InCall ~> (pc = "returned" /\ result.returned)
    /\ [](pc = "returned" => \A t \in Tasks : task[t] \in {"none", "done"})

\* A call with lead time returned the first of two errors; all four fetches had
\* been called and have returned.
C28_Witness ==
    /\ pc = "returned"
    /\ result.returned
    /\ calculateLeadTime
    /\ Len(failures) = 2
    /\ result.err = failures[1].err
    /\ \A t \in Tasks : task[t] = "done" /\ Len(calls[t]) = 1

\* C29: percentile presence and count.  The i-th output record is built from the
\* i-th record of Aggregate: it has percentiles exactly when lead time was
\* requested and the record has at least one sample, and then its
\* AnalyzedPRCount is the number of samples; Name, Commits, CreatedPRs and
\* ReviewedPRs are those of the record; and the printed array has the same
\* objects in the same order.
C29_PercentilePresence ==
    /\ Len(outputResults) <= Len(domainResults)
    /\ \A i \in 1..Len(outputResults) :
         LET o == outputResults[i]
             r == domainResults[i]
             n == Len(r.LeadTimeToLastReviewSeconds)
         IN  /\ ~o.LeadTimePercentiles.isNil <=> (leadTimeFlag /\ n >= 1)
             /\ ~o.LeadTimePercentiles.isNil => o.AnalyzedPRCount = n
             /\ o.LeadTimePercentiles.isNil => o.AnalyzedPRCount = 0
             /\ o.Name = r.Name
             /\ o.Commits = r.Commits
             /\ o.CreatedPRs = r.CreatedPRs
             /\ o.ReviewedPRs = r.ReviewedPRs
    /\ Printed =>
         \A i \in 1..Len(domainResults) :
           LET j == stdout[1][i]
               r == domainResults[i]
               n == Len(r.LeadTimeToLastReviewSeconds)
           IN  /\ j.name = r.Name
               /\ j.commits = r.Commits
               /\ j.created_prs = r.CreatedPRs
               /\ j.reviewed_prs = r.ReviewedPRs
               /\ "lead_time_percentiles_hours" \in DOMAIN j <=> (leadTimeFlag /\ n >= 1)
               /\ "lead_time_percentiles_hours" \in DOMAIN j => j.analyzed_pr_count = n

\* Lead time was requested; "a" has three samples and two created pull requests,
\* "b" has none: printed in this order, "a" with analyzed_pr_count 3 and
\* percentiles, "b" without.
C29_Witness ==
    /\ Printed
    /\ leadTimeFlag
    /\ Len(domainResults) = 2
    /\ Len(domainResults[1].LeadTimeToLastReviewSeconds) = 3
    /\ domainResults[1].CreatedPRs = 2
    /\ domainResults[2].LeadTimeToLastReviewSeconds = <<>>
    /\ stdout[1][1].name = <<97>>
    /\ stdout[1][1].analyzed_pr_count = 3
    /\ "lead_time_percentiles_hours" \in DOMAIN stdout[1][1]
    /\ stdout[1][2].name = <<98>>
    /\ "lead_time_percentiles_hours" \notin DOMAIN stdout[1][2]

\* a <= b on fractions with positive denominators.
RatLeq(a, b) == a.den > 0 /\ b.den > 0 /\ a.num * b.den <= b.num * a.den

\* The least and the greatest element of a non-empty sequence of numbers.
MinOfSeq(q) == CHOOSE x \in { q[k] : k \in 1..Len(q) } : \A k \in 1..Len(q) : x <= q[k]
MaxOfSeq(q) == CHOOSE x \in { q[k] : k \in 1..Len(q) } : \A k \in 1..Len(q) : x >= q[k]

\* The sequences that hold the elements of q in another order.
Rearrangements(q) ==
    { [ k \in 1..Len(q) |-> q[f[k]] ] :
        f \in { g \in [1..Len(q) -> 1..Len(q)] : \A a, b \in 1..Len(q) : a # b => g[a] # g[b] } }

\* C30: percentile ordering.  For every repository printed with percentiles,
\* min/3600 <= p50 <= p75 <= p90 <= p95 <= p99 <= max/3600 over its samples in
\* seconds, and the same five values are computed from the samples in any other
\* order.
C30_PercentileOrdering ==
    Printed =>
      \A i \in 1..Len(domainResults) :
        LET samples == domainResults[i].LeadTimeToLastReviewSeconds
            j == stdout[1][i]
        IN  "lead_time_percentiles_hours" \in DOMAIN j =>
              LET h == j["lead_time_percentiles_hours"]
              IN  /\ samples # <<>>
                  /\ RatLeq([num |-> MinOfSeq(samples), den |-> 3600], h.p50_hours)
                  /\ RatLeq(h.p50_hours, h.p75_hours)
                  /\ RatLeq(h.p75_hours, h.p90_hours)
                  /\ RatLeq(h.p90_hours, h.p95_hours)
                  /\ RatLeq(h.p95_hours, h.p99_hours)
                  /\ RatLeq(h.p99_hours, [num |-> MaxOfSeq(samples), den |-> 3600])
                  /\ \A q \in Rearrangements(samples) :
                       /\ ToHours(Percentile(q, 50)) = h.p50_hours
                       /\ ToHours(Percentile(q, 75)) = h.p75_hours
                       /\ ToHours(Percentile(q, 90)) = h.p90_hours
                       /\ ToHours(Percentile(q, 95)) = h.p95_hours
                       /\ ToHours(Percentile(q, 99)) = h.p99_hours

\* The samples 3 h, 30 min, 1 h, given in descending-then-ascending order: p50 is
\* 0.75 h (the mean of 30 min and 1 h) and p75 to p99 are 2 h (the mean of 1 h and
\* 3 h).
C30_Witness ==
    /\ Printed
    /\ Len(domainResults) >= 1
    /\ domainResults[1].LeadTimeToLastReviewSeconds = <<3 * Hour, 1800, Hour>>
    /\ stdout[1][1]["lead_time_percentiles_hours"].p50_hours = [num |-> 3, den |-> 4]
    /\ stdout[1][1]["lead_time_percentiles_hours"].p75_hours = [num |-> 2, den |-> 1]
    /\ stdout[1][1]["lead_time_percentiles_hours"].p99_hours = [num |-> 2, den |-> 1]

====
